---- MODULE Spec2Model ----
(***************************************************************************)
(* A model of the patent-document normalisation pipeline of                *)
(* main_batch_home_refactored.py: the per-file parser (process_xml_file    *)
(* and the field-derivation rules it calls) and the batch orchestrator     *)
(* (process_year, batch_convert) with its chunking and statistics.         *)
(*                                                                         *)
(* Representation of Python values.                                        *)
(*   None        the empty tuple <<>>                                      *)
(*   a value v   the one-element tuple <<v>>          (Some(v))            *)
(*   a number    the characters of its str(), after the token "num"        *)
(*   a str       a tuple of tokens.  Numbers, dates, kinds and root keys   *)
(*               are tuples of characters or character groups; free text   *)
(*               is a tuple of lines, so that "\n"-joining is the          *)
(*               concatenation of lines and "\n\n"-joining puts one blank  *)
(*               line "" between the parts.                                *)
(*   a parsed XML node   [t, s, items] with t in none/str/list/dict; a     *)
(*               dict keeps its (key, value) pairs in document order.      *)
(***************************************************************************)
EXTENDS Integers, Sequences, FiniteSets, TLC

VARIABLES
    \* ---- one call of process_xml_file (specification SpecParse) ----
    doc,            \* the file handed to process_xml_file; under SpecHelpers
                    \* the call of a helper: its name, its arguments and how
                    \* often it was applied
    result,         \* the 5-tuple it returned, <<>> before the call; under
                    \* SpecHelpers what the helper returned
    \* ---- batch_convert / process_year (specification Spec) ----
    pc,             \* position of the consumer
    cfg,            \* max_items_per_file, max_file_size_gb
    todo,           \* target_folders still to process
    budget,         \* files of the input folder not yet collected
    year,           \* the year being processed
    pending,        \* submitted files whose result has not been consumed
    nfiles,         \* len(files) of the year
    yr,             \* locals of process_year
    disk,           \* files written under the output folder
    returned,       \* what process_year returned, per processed year
    grand           \* accumulators of batch_convert

parseVars == <<doc, result>>
batchVars == <<pc, cfg, todo, budget, year, pending, nfiles, yr, disk, returned, grand>>
vars == <<doc, result, pc, cfg, todo, budget, year, pending, nfiles, yr, disk, returned, grand>>

-----------------------------------------------------------------------------
(* Python values *)

None == <<>>
Some(v) == <<v>>
Val(o) == o[1]

\* bool(x) of an optional str: neither None nor ""
Truthy(o) == o # None /\ Val(o) # <<>>

Range(s) == {s[i] : i \in 1..Len(s)}

\* an int or a float, kept as the characters str() gives for it
Num(repr) == <<"num">> \o repr
IsNum(v) == v # <<>> /\ Head(v) = "num"

\* str(v) of a str or a number
str(v) == IF IsNum(v) THEN Tail(v) ELSE v

\* bool(x) of an optional str or number: not None, not "", not 0 and not 0.0
TruthyValue(o) ==
    /\ o # None
    /\ IF IsNum(Val(o)) THEN str(Val(o)) \notin {<<"0">>, <<"0", ".", "0">>}
       ELSE Val(o) # <<>>

RECURSIVE Concat(_)
Concat(ss) == IF ss = <<>> THEN <<>> ELSE Head(ss) \o Concat(Tail(ss))

\* "\n".join(texts): the lines of the parts, one after the other
JoinNL(texts) == Concat(texts)

\* "\n\n".join(texts): one blank line between consecutive parts
RECURSIVE JoinBlank(_)
JoinBlank(texts) ==
    IF texts = <<>> THEN <<>>
    ELSE IF Len(texts) = 1 THEN texts[1]
    ELSE texts[1] \o <<"">> \o JoinBlank(Tail(texts))

\* str.strip() on a text: leading and trailing blank lines go
RECURSIVE StripHead(_)
StripHead(s) == IF s # <<>> /\ Head(s) = "" THEN StripHead(Tail(s)) ELSE s

RECURSIVE StripTail(_)
StripTail(s) ==
    IF s # <<>> /\ s[Len(s)] = "" THEN StripTail(SubSeq(s, 1, Len(s) - 1)) ELSE s

Strip(s) == StripTail(StripHead(s))

\* str.upper(), str.lower() on the letters the model uses
UpperTok(c) ==
    CASE c = "a" -> "A" [] c = "b" -> "B" [] c = "c" -> "C"
      [] c = "u" -> "U" [] c = "y" -> "Y" [] OTHER -> c

Upper(s) == [i \in 1..Len(s) |-> UpperTok(s[i])]

LowerTok(c) ==
    CASE c = "CN-Patent-Document" -> "cn-patent-document"
      [] c = "CN-PATENT-DOCUMENT" -> "cn-patent-document"
      [] c = "PatentDocumentAndRelated" -> "patentdocumentandrelated"
      [] c = "PATENTDOCUMENTANDRELATED" -> "patentdocumentandrelated"
      [] c = "Kr" -> "kr"
      [] OTHER -> c

Lower(s) == [i \in 1..Len(s) |-> LowerTok(s[i])]

-----------------------------------------------------------------------------
(* Parsed XML nodes *)

NoneNode == [t |-> "none", s |-> <<>>, items |-> <<>>]
Str(s) == [t |-> "str", s |-> s, items |-> <<>>]
List(ns) == [t |-> "list", s |-> <<>>, items |-> ns]
Dict(kvs) == [t |-> "dict", s |-> <<>>, items |-> kvs]
KV(k, v) == [k |-> k, v |-> v]

HasKey(d, k) == d.t = "dict" /\ \E i \in 1..Len(d.items) : d.items[i].k = k
Get(d, k) == d.items[CHOOSE i \in 1..Len(d.items) : d.items[i].k = k].v

\* truth value of a node
NodeTruthy(n) ==
    CASE n.t = "none" -> FALSE
      [] n.t = "str" -> n.s # <<>>
      [] OTHER -> n.items # <<>>

IsAttrKey(k) == k \in {"@id", "@num", "@lang"}

RECURSIVE extract_text(_)
RECURSIVE extract_texts(_)
\* the non-empty texts of a sequence of nodes, in order
extract_texts(ns) ==
    IF ns = <<>> THEN <<>>
    ELSE LET tx == extract_text(Head(ns))
         IN (IF Truthy(tx) THEN <<Val(tx)>> ELSE <<>>) \o extract_texts(Tail(ns))

extract_text(node) ==
    CASE node.t = "none" -> None
      [] node.t = "str" -> Some(Strip(node.s))
      [] node.t = "dict" ->
            IF HasKey(node, "#text") /\ NodeTruthy(Get(node, "#text"))
            THEN extract_text(Get(node, "#text"))
            ELSE IF HasKey(node, "text") /\ NodeTruthy(Get(node, "text"))
            THEN extract_text(Get(node, "text"))
            ELSE LET clean == SelectSeq(node.items, LAMBDA p : ~IsAttrKey(p.k))
                     texts == extract_texts([i \in 1..Len(clean) |-> clean[i].v])
                 IN IF texts # <<>> THEN Some(JoinNL(texts)) ELSE None
      [] node.t = "list" ->
            LET texts == extract_texts(node.items)
            IN IF texts # <<>> THEN Some(JoinNL(texts)) ELSE None

-----------------------------------------------------------------------------
(* safe_get.  The nodes of a parsed document form a tree, so the identity   *)
(* of a dict or list, which the visited set of the search records, is its   *)
(* path: the positions leading to it from the node the search starts at.    *)

\* the value at a position of a dict or list
Child(n, i) == IF n.t = "dict" THEN n.items[i].v ELSE n.items[i]

RECURSIVE NodeAt(_, _)
NodeAt(obj, path) ==
    IF path = <<>> THEN obj ELSE NodeAt(Child(obj, Head(path)), Tail(path))

\* the position of key in a dict that holds it
KeyPos(d, key) == CHOOSE i \in 1..Len(d.items) : d.items[i].k = key

\* what the search appends to results at a dict: nothing without the key or for
\* a non-empty list, the text of a text wrapper, and the value otherwise
Matched(current, key) ==
    IF ~HasKey(current, key) THEN <<>>
    ELSE IF Get(current, key).t = "dict"
    THEN IF HasKey(Get(current, key), "#text") THEN <<Get(Get(current, key), "#text")>>
         ELSE IF HasKey(Get(current, key), "text") THEN <<Get(Get(current, key), "text")>>
         ELSE <<Get(current, key)>>
    ELSE IF Get(current, key).t = "list" /\ Get(current, key).items # <<>> THEN <<>>
    ELSE <<Get(current, key)>>

\* the elements of a non-empty list stored under key, which the search queues
MatchedQueue(current, path, key) ==
    IF HasKey(current, key) /\ Get(current, key).t = "list"
    THEN [j \in 1..Len(Get(current, key).items) |-> path \o <<KeyPos(current, key), j>>]
    ELSE <<>>

\* the values of a dict or the elements of a list that are not None
ChildQueue(current, path) ==
    LET kept == SelectSeq([i \in 1..Len(current.items) |-> i],
                          LAMBDA i : Child(current, i).t # "none")
    IN [j \in 1..Len(kept) |-> path \o <<kept[j]>>]

RECURSIVE Search(_, _, _, _, _)
\* the while loop of safe_get
Search(obj, key, queue, visited, results) ==
    IF queue = <<>> THEN results
    ELSE IF NodeAt(obj, Head(queue)).t \in {"dict", "list"} /\ Head(queue) \in visited
    THEN Search(obj, key, Tail(queue), visited, results)
    ELSE IF NodeAt(obj, Head(queue)).t = "dict"
    THEN Search(obj, key,
                Tail(queue) \o MatchedQueue(NodeAt(obj, Head(queue)), Head(queue), key)
                            \o ChildQueue(NodeAt(obj, Head(queue)), Head(queue)),
                visited \cup {Head(queue)},
                results \o Matched(NodeAt(obj, Head(queue)), key))
    ELSE IF NodeAt(obj, Head(queue)).t = "list"
    THEN Search(obj, key,
                Tail(queue) \o ChildQueue(NodeAt(obj, Head(queue)), Head(queue)),
                visited \cup {Head(queue)}, results)
    ELSE Search(obj, key, Tail(queue), visited, results)

\* the value safe_get returns for the results of its search
Results(results) ==
    IF Len(results) = 1 THEN results[1]
    ELSE IF results # <<>> THEN List(results)
    ELSE NoneNode

safe_get(obj, key) ==
    IF obj.t = "none" THEN NoneNode
    ELSE IF HasKey(obj, key) THEN Get(obj, key)
    ELSE Results(Search(obj, key, <<(<<>>)>>, {}, <<>>))

-----------------------------------------------------------------------------
(* Free text.  A text is a tuple of lines; the lines the rules tell apart:  *)
(*   "w1" "w2" "w3"  prose                                                  *)
(*   "t"             a line whose digit/punctuation share exceeds 40%       *)
(*   ""              a blank line                                           *)
(*   "D"  "E"        a short line holding a drawings / embodiments marker   *)
(*   "DE"            a short line holding both markers                      *)
(*   "DL" "EL"       a line of 100 characters or more holding the marker    *)

ShortLimit == 100

TokLen(tok) ==
    CASE tok = "" -> 0
      [] tok = "D" -> 12
      [] tok = "E" -> 21
      [] tok = "DE" -> 40
      [] tok = "DL" -> 130
      [] tok = "EL" -> 140
      [] OTHER -> 30

RECURSIVE SumLen(_)
SumLen(text) == IF text = <<>> THEN 0 ELSE TokLen(Head(text)) + SumLen(Tail(text))

\* len(text): the characters of the lines and the newlines between them
TextLen(text) == IF text = <<>> THEN 0 ELSE SumLen(text) + (Len(text) - 1)

\* any(marker.lower() in lower_text for marker in DRAWING_MARKERS)
HasDrawingMarker(text) == \E i \in 1..Len(text) : text[i] \in {"D", "DE", "DL"}

\* any(marker.lower() in lower_text for marker in EMBODIMENT_MARKERS)
HasEmbodimentMarker(text) == \E i \in 1..Len(text) : text[i] \in {"E", "DE", "EL"}

is_table_like(line) == line # "" /\ line = "t"

scrub_tables(raw_text) ==
    IF ~Truthy(raw_text) THEN None
    ELSE LET lines == Val(raw_text)
             clean_lines == SelectSeq(lines, LAMBDA l : l # "" /\ ~is_table_like(l))
             res == Strip(JoinBlank([i \in 1..Len(clean_lines) |-> <<clean_lines[i]>>]))
         IN IF res # <<>> THEN Some(res) ELSE None

\* the non-empty texts of paragraphs[lo..hi-1] (0-based, as range(lo, hi))
\* TextsOfRange that starts at the marker paragraph itself
TextsFromMarker(paragraphs, lo, hi) ==
    IF lo > hi \/ lo < 1 THEN <<>>
    ELSE extract_texts(SubSeq(paragraphs, lo, hi))

TextsOfRange(paragraphs, lo, hi) ==
    IF lo >= hi THEN <<>>
    ELSE extract_texts(SubSeq(paragraphs, lo + 1, hi))

\* the marker scan of extract_description_sections: the for loop from index i on,
\* st = [d: drawings_start_idx, e: embodiment_start_idx, brief]
RECURSIVE MarkerScan(_, _, _)
MarkerScan(paragraphs, i, st) ==
    IF i >= Len(paragraphs) THEN st
    ELSE LET text == extract_text(paragraphs[i + 1])
         IN IF ~Truthy(text) THEN MarkerScan(paragraphs, i + 1, st)
            ELSE IF HasDrawingMarker(Val(text)) /\ TextLen(Val(text)) < ShortLimit
            THEN MarkerScan(paragraphs, i + 1, [st EXCEPT !.d = i])
            ELSE IF HasEmbodimentMarker(Val(text)) /\ TextLen(Val(text)) < ShortLimit
            THEN LET drawing_paragraphs == TextsOfRange(paragraphs, st.d + 1, i)
                     brief == IF st.d # -1 /\ st.d < i /\ drawing_paragraphs # <<>>
                              THEN Some(JoinBlank(drawing_paragraphs))
                              ELSE st.brief
                 IN MarkerScan(paragraphs, i + 1, [d |-> st.d, e |-> i, brief |-> brief])
            ELSE MarkerScan(paragraphs, i + 1, st)

\* the embodiments text: the paragraphs after the last embodiment marker
EmbodimentsAfter(paragraphs, st) ==
    LET embodiment_paragraphs == TextsOfRange(paragraphs, st.e + 1, Len(paragraphs))
    IN IF st.e # -1 /\ embodiment_paragraphs # <<>>
       THEN Some(JoinBlank(embodiment_paragraphs))
       ELSE None

\* SectionsOfScan that takes the text after a lone drawings marker as section
SectionsOfScanLoneMarker(paragraphs, st) ==
    LET full_description == extract_texts(paragraphs)
        after == TextsOfRange(paragraphs, st.d + 1, Len(paragraphs))
    IN <<IF st.d # -1 /\ st.e = -1 /\ after # <<>>
         THEN Some(JoinBlank(after)) ELSE st.brief,
         EmbodimentsAfter(paragraphs, st),
         IF full_description # <<>> THEN Some(JoinBlank(full_description)) ELSE None>>

\* the tuple extract_description_sections returns, from the outcome of its scan
SectionsOfScan(paragraphs, st) ==
    LET full_description == extract_texts(paragraphs)
    IN <<st.brief,
         EmbodimentsAfter(paragraphs, st),
         IF full_description # <<>> THEN Some(JoinBlank(full_description)) ELSE None>>

\* returns <<brief_description_of_drawings, description_of_embodiments,
\*           full_description_text>>
extract_description_sections(paragraphs) ==
    SectionsOfScan(paragraphs, MarkerScan(paragraphs, 0, [d |-> -1, e |-> -1, brief |-> None]))

find_description_in_document(root) ==
    LET app_body == IF HasKey(root, "application-body")
                    THEN Get(root, "application-body") ELSE Dict(<<>>)
    IN IF app_body.t = "dict" /\ HasKey(app_body, "description")
       THEN Get(app_body, "description")
       ELSE IF HasKey(root, "description") THEN Get(root, "description")
       ELSE IF HasKey(root, "cn-description") THEN Get(root, "cn-description")
       ELSE IF HasKey(root, "Description") THEN Get(root, "Description")
       ELSE NoneNode

extract_description_paragraphs(description) ==
    IF description.t # "dict" THEN <<>>
    ELSE IF HasKey(description, "p") /\ Get(description, "p").t = "list"
    THEN Get(description, "p").items
    ELSE IF HasKey(description, "p") THEN <<Get(description, "p")>>
    ELSE IF HasKey(description, "Paragraphs") /\ Get(description, "Paragraphs").t = "list"
    THEN Get(description, "Paragraphs").items
    ELSE IF HasKey(description, "Paragraphs") THEN <<Get(description, "Paragraphs")>>
    ELSE <<>>

DrawingTags == <<"drawings-description", "description-of-drawings",
                 "DrawingsDescription", "drawings">>
EmbodimentTags == <<"detailed-description", "invention-description", "embodiments",
                    "mode-for-invention", "InventionMode">>

\* for key in keys: if key in description: found = description[key]; break
FirstTagged(description, keys) ==
    LET hits == SelectSeq(keys, LAMBDA k : HasKey(description, k))
    IN IF hits = <<>> THEN NoneNode ELSE Get(description, hits[1])

\* the text under the first of the keys the description holds, tables scrubbed
TagSection(description, keys) ==
    LET found == IF description.t = "dict" THEN FirstTagged(description, keys) ELSE NoneNode
    IN IF NodeTruthy(found) THEN scrub_tables(extract_text(found)) ELSE None

\* FillFromMarkers that takes every section the marker scan found
FillFromMarkersFirst(tag_drawing, tag_embodiment, marker, full_description_text) ==
    <<IF Truthy(marker[1]) THEN marker[1] ELSE tag_drawing,
      IF Truthy(marker[2]) THEN marker[2] ELSE tag_embodiment,
      full_description_text>>

\* a section the tags did not give is taken from the marker scan
FillFromMarkers(tag_drawing, tag_embodiment, marker, full_description_text) ==
    <<IF ~Truthy(tag_drawing) /\ Truthy(marker[1]) THEN marker[1] ELSE tag_drawing,
      IF ~Truthy(tag_embodiment) /\ Truthy(marker[2]) THEN marker[2] ELSE tag_embodiment,
      full_description_text>>

\* the marker scan runs only when a section is missing and there are paragraphs
MarkerFallback(tag_drawing, tag_embodiment, all_paragraphs, full_description_text) ==
    FillFromMarkers(tag_drawing, tag_embodiment,
        IF (~Truthy(tag_drawing) \/ ~Truthy(tag_embodiment)) /\ all_paragraphs # <<>>
        THEN extract_description_sections(all_paragraphs)
        ELSE <<None, None, None>>,
        full_description_text)

\* returns <<drawing_section, embodiment_section, full_description_text>>
extract_structured_description(description, all_paragraphs) ==
    MarkerFallback(TagSection(description, DrawingTags),
                   TagSection(description, EmbodimentTags),
                   all_paragraphs,
                   IF description.t = "dict" THEN extract_text(description) ELSE None)

-----------------------------------------------------------------------------
(* Numbers and dates.  A number or a date is a tuple of characters. *)

RECURSIVE BeforeDot(_)
\* app_number_str.split('.')[0]
BeforeDot(s) ==
    IF s = <<>> \/ Head(s) = "." THEN <<>> ELSE <<Head(s)>> \o BeforeDot(Tail(s))

RECURSIVE BeforeLastDot(_)
\* app_number_str.rsplit('.', 1)[0]
BeforeLastDot(s) ==
    IF "." \notin Range(Tail(s)) THEN BeforeDot(s)
    ELSE <<Head(s)>> \o BeforeLastDot(Tail(s))

\* clean_application_number that cuts at the last decimal point
CleanAtLastPoint(app_number) ==
    IF ~TruthyValue(app_number) THEN app_number
    ELSE IF "." \in Range(str(Val(app_number)))
    THEN Some(BeforeLastDot(str(Val(app_number))))
    ELSE Some(str(Val(app_number)))

clean_application_number(app_number) ==
    IF ~TruthyValue(app_number) THEN app_number
    ELSE IF "." \in Range(str(Val(app_number)))
    THEN Some(BeforeDot(str(Val(app_number))))
    ELSE Some(str(Val(app_number)))

Digits == {"0", "1", "2", "3", "4", "5", "6", "7", "8", "9"}

DigitVal(c) ==
    CASE c = "0" -> 0 [] c = "1" -> 1 [] c = "2" -> 2 [] c = "3" -> 3 [] c = "4" -> 4
      [] c = "5" -> 5 [] c = "6" -> 6 [] c = "7" -> 7 [] c = "8" -> 8 [] c = "9" -> 9

RECURSIVE NumVal(_)
NumVal(s) == IF s = <<>> THEN 0 ELSE NumVal(SubSeq(s, 1, Len(s) - 1)) * 10 + DigitVal(s[Len(s)])

\* the lengths of the prefixes of s that the directive %m can match, in the order
\* the pattern 1[0-2]|0[1-9]|[1-9] tries them
MonthMatches(s) ==
    (IF Len(s) >= 2 /\ s[1] = "1" /\ s[2] \in {"0", "1", "2"} THEN <<2>> ELSE <<>>)
    \o (IF Len(s) >= 2 /\ s[1] = "0" /\ s[2] \in Digits \ {"0"} THEN <<2>> ELSE <<>>)
    \o (IF Len(s) >= 1 /\ s[1] \in Digits \ {"0"} THEN <<1>> ELSE <<>>)

\* the length of the prefix of s that %d matches first, 0 when it matches none:
\* 3[0-1]|[1-2]\d|0[1-9]|[1-9]| [1-9]
DayMatch(s) ==
    IF Len(s) >= 2 /\ s[1] = "3" /\ s[2] \in {"0", "1"} THEN 2
    ELSE IF Len(s) >= 2 /\ s[1] \in {"1", "2"} /\ s[2] \in Digits THEN 2
    ELSE IF Len(s) >= 2 /\ s[1] = "0" /\ s[2] \in Digits \ {"0"} THEN 2
    ELSE IF Len(s) >= 1 /\ s[1] \in Digits \ {"0"} THEN 1
    ELSE IF Len(s) >= 2 /\ s[1] = " " /\ s[2] \in Digits \ {"0"} THEN 2
    ELSE 0

IsLeap(y) == (y % 4 = 0 /\ y % 100 # 0) \/ y % 400 = 0

DaysIn(y, m) ==
    IF m = 2 THEN (IF IsLeap(y) THEN 29 ELSE 28)
    ELSE IF m \in {4, 6, 9, 11} THEN 30 ELSE 31

\* datetime.strptime(s, "%Y%m%d"): Some([year, month]) or None for ValueError
strptime_Ymd(s) ==
    IF Len(s) < 4 \/ \E i \in 1..4 : s[i] \notin Digits THEN None
    ELSE LET rest == SubSeq(s, 5, Len(s))
             ms == SelectSeq(MonthMatches(rest),
                             LAMBDA n : DayMatch(SubSeq(rest, n + 1, Len(rest))) > 0)
         IN IF ms = <<>> THEN None
            ELSE LET mlen == ms[1]
                     dtxt == SubSeq(rest, mlen + 1, Len(rest))
                     dlen == DayMatch(dtxt)
                     y == NumVal(SubSeq(s, 1, 4))
                     m == NumVal(SubSeq(rest, 1, mlen))
                     d == NumVal(SelectSeq(SubSeq(dtxt, 1, dlen), LAMBDA c : c # " "))
                 IN IF mlen + dlen # Len(rest) THEN None      \* unconverted data remains
                    ELSE IF y < 1 \/ d > DaysIn(y, m) THEN None
                    ELSE Some([year |-> y, month |-> m])

calculate_date_diff(app_date, pub_date) ==
    IF ~Truthy(app_date) \/ ~Truthy(pub_date) THEN None
    ELSE LET app_date_obj == strptime_Ymd(Val(app_date))
             pub_date_obj == strptime_Ymd(Val(pub_date))
         IN IF app_date_obj = None \/ pub_date_obj = None THEN None
            ELSE Some((Val(pub_date_obj).year - Val(app_date_obj).year) * 12
                      + (Val(pub_date_obj).month - Val(app_date_obj).month))

OpenMonths == 18

\* a kind as the XML gives it (a node) to the optional str the record keeps
KindValue(kind) == IF kind.t = "str" THEN Some(kind.s) ELSE None

\* GrantedNumbers without the assignment of register_date
GrantedNumbersNoRegisterDate(base, clean_app, pub_number, pub_date, months_diff_for_BC) ==
    [base EXCEPT
        !.publication_number = IF Truthy(pub_number) THEN pub_number ELSE None,
        !.publication_date = pub_date,
        !.register_number = IF Truthy(clean_app) THEN clean_app ELSE None,
        !.open_number = IF months_diff_for_BC # None
                           /\ Val(months_diff_for_BC) > OpenMonths
                        THEN pub_number ELSE None]

\* GrantedNumbers that takes a difference of OpenMonths months as exceeding it
GrantedNumbersFromThreshold(base, clean_app, pub_number, pub_date, months_diff_for_BC) ==
    [base EXCEPT
        !.publication_number = IF Truthy(pub_number) THEN pub_number ELSE None,
        !.publication_date = pub_date,
        !.register_number = IF Truthy(clean_app) THEN clean_app ELSE None,
        !.register_date = pub_date,
        !.open_number = IF months_diff_for_BC # None
                           /\ Val(months_diff_for_BC) >= OpenMonths
                        THEN pub_number ELSE None]

\* the branch of format_numbers for granted documents (kind B or C)
GrantedNumbers(base, clean_app, pub_number, pub_date, months_diff_for_BC) ==
    [base EXCEPT
        !.publication_number = IF Truthy(pub_number) THEN pub_number ELSE None,
        !.publication_date = pub_date,
        !.register_number = IF Truthy(clean_app) THEN clean_app ELSE None,
        !.register_date = pub_date,
        !.open_number = IF months_diff_for_BC # None
                           /\ Val(months_diff_for_BC) > OpenMonths
                        THEN pub_number ELSE None]

\* OpenedNumbers that fills the publication fields as well
OpenedNumbersAsPublished(base, pub_number, pub_date) ==
    [base EXCEPT
        !.open_number = IF Truthy(pub_number) THEN pub_number ELSE None,
        !.open_date = pub_date,
        !.publication_number = IF Truthy(pub_number) THEN pub_number ELSE None,
        !.publication_date = pub_date]

\* the branch of format_numbers for published applications (kind A)
OpenedNumbers(base, pub_number, pub_date) ==
    [base EXCEPT
        !.open_number = IF Truthy(pub_number) THEN pub_number ELSE None,
        !.open_date = pub_date]

\* UtilityModelNumbers with the assignments of the branch for kind A
UtilityModelAsOpen(base, clean_app, pub_number, pub_date) ==
    [base EXCEPT
        !.open_number = IF Truthy(pub_number) THEN pub_number ELSE None,
        !.open_date = pub_date]

\* the branch of format_numbers for utility models (kind U or Y): the
\* publication and register numbers and dates, no open number and no open date
UtilityModelNumbers(base, clean_app, pub_number, pub_date) ==
    [base EXCEPT
        !.publication_number = IF Truthy(pub_number) THEN pub_number ELSE None,
        !.publication_date = pub_date,
        !.register_number = IF Truthy(clean_app) THEN clean_app ELSE None,
        !.register_date = pub_date]

\* format_numbers raises (kind.upper() on a mapping) or returns its 7-tuple
format_numbers(app_number, pub_number, pub_date, kind, app_date) ==
    LET clean_app == clean_application_number(app_number)
        base == [exc |-> FALSE, app |-> clean_app,
                 publication_number |-> None, publication_date |-> None,
                 open_number |-> None, open_date |-> None,
                 register_number |-> None, register_date |-> None]
        up == Upper(kind.s)
        months_diff_for_BC == calculate_date_diff(app_date, pub_date)
    IN IF ~NodeTruthy(kind) THEN base
       ELSE IF kind.t # "str" THEN [base EXCEPT !.exc = TRUE]
       ELSE IF up \in {<<"B">>, <<"C">>}
       THEN GrantedNumbers(base, clean_app, pub_number, pub_date, months_diff_for_BC)
       ELSE IF up \in {<<"U">>, <<"Y">>}
       THEN UtilityModelNumbers(base, clean_app, pub_number, pub_date)
       ELSE IF up = <<"A">>
       THEN OpenedNumbers(base, pub_number, pub_date)
       ELSE base

-----------------------------------------------------------------------------
(* The variant parsers.                                                     *)
(* A file is [path, read, xml, root_key, root, bib]: root is the parsed     *)
(* value under the single root key, and bib holds what the parser's         *)
(* look-ups in the bibliographic sub-structure deliver (kind as a node,     *)
(* the rest as optional strs).                                              *)

FieldSeq == <<"MainCPC", "Kind", "OpenNumber", "OpenDate", "RegisterNumber",
              "RegisterDate", "PublicationNumber", "PublicationDate",
              "ApplicationNumber", "ApplicationDate", "ApplicantName", "InventorName",
              "AgentName", "Title", "Summary", "SummaryOfInvention",
              "BriefDescriptionOfDrawings", "DescriptionOfEmbodiments", "Description",
              "Claims">>

Fields == Range(FieldSeq)

\* DescriptionField with "and" where the code has "or"
DescriptionFieldBothMissing(drawing_section, embodiment_section, full_description_text) ==
    IF ~Truthy(drawing_section) /\ ~Truthy(embodiment_section)
    THEN full_description_text ELSE None

\* DescriptionField without its condition
DescriptionFieldAlways(drawing_section, embodiment_section, full_description_text) ==
    full_description_text

\* "Description": full_description_text if (not bool(drawing_section) or
\*                 not bool(embodiment_section)) else None
DescriptionField(drawing_section, embodiment_section, full_description_text) ==
    IF ~Truthy(drawing_section) \/ ~Truthy(embodiment_section)
    THEN full_description_text ELSE None

create_parsed_result(main_cpc, kind, open_number, open_date, register_number, register_date, pub_number, pub_date, app_number, app_date, applicant_name, inventor_name, agent_name, title, summary, drawing_section, embodiment_section, full_description_text, claims) ==
    [MainCPC |-> main_cpc,
     Kind |-> kind,
     OpenNumber |-> open_number,
     OpenDate |-> open_date,
     RegisterNumber |-> register_number,
     RegisterDate |-> register_date,
     PublicationNumber |-> pub_number,
     PublicationDate |-> pub_date,
     ApplicationNumber |-> app_number,
     ApplicationDate |-> app_date,
     ApplicantName |-> applicant_name,
     InventorName |-> inventor_name,
     AgentName |-> agent_name,
     Title |-> title,
     Summary |-> summary,
     SummaryOfInvention |-> None,
     BriefDescriptionOfDrawings |-> drawing_section,
     DescriptionOfEmbodiments |-> embodiment_section,
     Description |-> DescriptionField(drawing_section, embodiment_section,
                                      full_description_text),
     Claims |-> claims]

\* a parser's outcome: it raised, it returned None, or it returned a record
Raised == [exc |-> TRUE, rec |-> None]
Returned(r) == [exc |-> FALSE, rec |-> r]

\* the sections of a description node and of its paragraphs
DescriptionSections(description) ==
    extract_structured_description(description, extract_description_paragraphs(description))

\* the record a parser builds from its look-ups, from what format_numbers
\* returned (fn) and from the description sections (sd)
ParsedRecord(bib, fn, sd) ==
    IF fn.exc THEN Raised
    ELSE Returned(Some(create_parsed_result(
            bib.cpc, KindValue(bib.kind), fn.open_number, fn.open_date,
            fn.register_number, fn.register_date, fn.publication_number,
            fn.publication_date, fn.app, bib.app_date, bib.applicant, bib.inventor,
            bib.agent, bib.title, bib.summary, sd[1], sd[2], sd[3], bib.claims)))

parse_cn_patent(root, bib) ==
    IF root.t = "none" THEN Raised                  \* "description" in None
    ELSE ParsedRecord(bib,
            format_numbers(bib.app_number, bib.pub_number, bib.pub_date, bib.kind,
                           bib.app_date),
            DescriptionSections(find_description_in_document(root)))

\* parse_business: a granted document without a register date takes the
\* publication date
BusinessRegisterDate(bib, fn) ==
    [fn EXCEPT !.register_date =
        IF NodeTruthy(bib.kind) /\ bib.kind.t = "str"
           /\ Upper(bib.kind.s) \in {<<"B">>, <<"C">>}
           /\ ~Truthy(@) /\ Truthy(bib.pub_date)
        THEN bib.pub_date ELSE @]

parse_business(root, bib) ==
    IF root.t = "none" THEN Raised                  \* "description" in None
    ELSE ParsedRecord(bib,
            BusinessRegisterDate(bib,
                format_numbers(bib.app_number, bib.pub_number, bib.pub_date, bib.kind,
                               bib.app_date)),
            DescriptionSections(find_description_in_document(root)))

\* the bibliographic fields the fallback parser does not look up are None
FallbackBib(bib) ==
    [bib EXCEPT !.cpc = None, !.applicant = None, !.inventor = None, !.agent = None]

process_fallback_xml(root, bib) ==
    IF root.t = "none" THEN Raised                  \* 'application-body' in None
    ELSE IF ~HasKey(root, "application-body") THEN Returned(None)
    ELSE IF Get(root, "application-body").t = "none" THEN Raised
    ELSE IF ~HasKey(Get(root, "application-body"), "description") THEN Returned(None)
    ELSE ParsedRecord(FallbackBib(bib),
            format_numbers(bib.app_number, None, None, bib.kind, bib.app_date),
            DescriptionSections(Get(Get(root, "application-body"), "description")))

-----------------------------------------------------------------------------
(* process_xml_file *)

\* value is not None and value != ""
Extracted(value) == value # None /\ Val(value) # <<>>

NoStatus == [f \in {} |-> TRUE]

\* the tuple (file_path, parsed_data, error, extraction_status, missing_details);
\* raised is set when the call ends in an exception instead of returning
Tuple5(file_path, parsed, error, status, missing) ==
    [raised |-> FALSE, path |-> file_path, data |-> parsed, error |-> error,
     status |-> status, missing |-> missing]

Propagated(file_path) ==
    [raised |-> TRUE, path |-> file_path, data |-> None, error |-> None,
     status |-> NoStatus, missing |-> None]

\* the encodings with latin1 tried first
EncodingsLatinFirst == <<"latin1", "utf-8", "euc-kr", "cp949">>

\* for enc in ("utf-8", "euc-kr", "cp949", "latin1")
Encodings == <<"utf-8", "euc-kr", "cp949", "latin1">>

\* The field read of a file says what open() finds: no file ("missing"), a file
\* that cannot be opened ("oserror"), or the bytes of the file:
\*   "ok"      ASCII text, which every encoding decodes to the same text
\*   "utf-8"   UTF-8 text with multi-byte characters
\*   "euc-kr"  text in EUC-KR, which CP949 extends
\*   "cp949"   text with characters of CP949 outside EUC-KR
\*   "binary"  bytes that only latin1, which decodes every byte, accepts
ByteClasses == {"ok", "utf-8", "euc-kr", "cp949", "binary"}

\* the encodings under which f.read() raises no UnicodeDecodeError
Decoders(bytes) ==
    CASE bytes = "ok" -> {"utf-8", "euc-kr", "cp949", "latin1"}
      [] bytes = "utf-8" -> {"utf-8", "latin1"}
      [] bytes = "euc-kr" -> {"euc-kr", "cp949", "latin1"}
      [] bytes = "cp949" -> {"cp949", "latin1"}
      [] bytes = "binary" -> {"latin1"}

\* the text f.read() returns: the characters the bytes stand for, or, for
\* bytes that are no latin1 text read as latin1, one character per byte
Decoded(enc, bytes) ==
    IF bytes = "ok" THEN <<"xml">>
    ELSE IF enc = "latin1" THEN <<"xml", "bytes-of", bytes>>
    ELSE <<"xml", "chars-of", bytes>>

RECURSIVE TryEncodings(_, _)
\* the loop over the encodings: FileNotFoundError returns None, any other
\* OSError propagates, UnicodeDecodeError goes on to the next encoding
TryEncodings(encs, f) ==
    IF encs = <<>> THEN [exc |-> FALSE, txt |-> None]
    ELSE IF f.read = "missing" THEN [exc |-> FALSE, txt |-> None]
    ELSE IF f.read = "oserror" THEN [exc |-> TRUE, txt |-> None]
    ELSE IF Head(encs) \in Decoders(f.read)
    THEN [exc |-> FALSE, txt |-> Some(Decoded(Head(encs), f.read))]
    ELSE TryEncodings(Tail(encs), f)

read_xml_with_encoding(f) == TryEncodings(Encodings, f)

StartsWith(s, tok) == Len(s) >= 1 /\ s[1] = tok
EndsWith(s, tok) == Len(s) >= 1 /\ s[Len(s)] = tok

\* the dispatch of process_xml_file on the root key
Dispatch(f) ==
    IF StartsWith(Lower(f.root_key), "cn-patent-document")
    THEN parse_cn_patent(f.root, f.bib)
    ELSE IF EndsWith(Lower(f.root_key), "patentdocumentandrelated")
    THEN parse_business(f.root, f.bib)
    ELSE process_fallback_xml(f.root, f.bib)

\* ContextualIssues without the test of the kind
ContextualIssuesAnyKind(parsed, detected_missing_fields) ==
    LET missing == Range(detected_missing_fields)
        desc == IF (~Truthy(parsed.BriefDescriptionOfDrawings)
                    \/ ~Truthy(parsed.DescriptionOfEmbodiments))
                   /\ "Description" \in missing
                THEN <<"Description_missing_when_drawings_or_embodiments_absent">>
                ELSE <<>>
        kindA == IF "OpenNumber" \in missing /\ "OpenDate" \in missing
                 THEN <<"Kind_A_missing_OpenNumber_and_OpenDate">>
                 ELSE IF "OpenNumber" \in missing THEN <<"Kind_A_missing_OpenNumber">>
                 ELSE IF "OpenDate" \in missing THEN <<"Kind_A_missing_OpenDate">>
                 ELSE <<>>
    IN desc \o kindA

ContextualIssues(parsed, detected_missing_fields) ==
    LET missing == Range(detected_missing_fields)
        desc == IF (~Truthy(parsed.BriefDescriptionOfDrawings)
                    \/ ~Truthy(parsed.DescriptionOfEmbodiments))
                   /\ "Description" \in missing
                THEN <<"Description_missing_when_drawings_or_embodiments_absent">>
                ELSE <<>>
        kindA == IF parsed.Kind # Some(<<"A">>) THEN <<>>
                 ELSE IF "OpenNumber" \in missing /\ "OpenDate" \in missing
                 THEN <<"Kind_A_missing_OpenNumber_and_OpenDate">>
                 ELSE IF "OpenNumber" \in missing THEN <<"Kind_A_missing_OpenNumber">>
                 ELSE IF "OpenDate" \in missing THEN <<"Kind_A_missing_OpenDate">>
                 ELSE <<>>
    IN desc \o kindA

\* the try block after the variant parser has run: its outcome, the
\* extraction status of every field and the missing-details report
AfterParse(file_path, parsed) ==
    LET data == [fld \in Fields \cup {"meta"} |->
                    IF fld = "meta" THEN [originalFileName |-> file_path]
                    ELSE Val(parsed.rec)[fld]]
        extraction_status == [fld \in Fields |-> Extracted(data[fld])]
        detected_missing_fields == SelectSeq(FieldSeq, LAMBDA fld : ~extraction_status[fld])
        issues == ContextualIssues(data, detected_missing_fields)
        missing_details ==
            IF detected_missing_fields = <<>> THEN None
            ELSE Some([full_file_path |-> file_path,
                       missing_fields |-> detected_missing_fields,
                       contextual_issues |-> IF issues # <<>> THEN Some(issues) ELSE None])
    IN IF parsed.exc THEN Propagated(file_path)
       ELSE IF parsed.rec = None
       THEN Tuple5(file_path, None, Some("UnknownStructure"), NoStatus, None)
       ELSE Tuple5(file_path, Some(data), None, extraction_status, missing_details)

\* the statements of the try block, up to the first return or exception
TryBody(f) ==
    LET rd == read_xml_with_encoding(f)
    IN IF rd.exc THEN Propagated(f.path)
       ELSE IF rd.txt = None
       THEN Tuple5(f.path, None, Some("EncodingUnrecognized"), NoStatus, None)
       ELSE IF f.xml # "ok" THEN Propagated(f.path)            \* xmltodict.parse raises
       ELSE AfterParse(f.path, Dispatch(f))

\* Caught without the handler: the exception leaves process_xml_file
Uncaught(file_path, r) == r

\* except Exception as e: return file_path, None, error_msg, {}, None
Caught(file_path, r) ==
    IF r.raised THEN Tuple5(file_path, None, Some("Exception"), NoStatus, None) ELSE r

\* try: ... except Exception: ...
process_xml_file(f) == Caught(f.path, TryBody(f))

-----------------------------------------------------------------------------
(* The files the model reads *)

D20200115 == <<"2", "0", "2", "0", "0", "1", "1", "5">>
D20200301 == <<"2", "0", "2", "0", "0", "3", "0", "1">>
D20210701 == <<"2", "0", "2", "1", "0", "7", "0", "1">>      \* 18 months after D20200115
D20210901 == <<"2", "0", "2", "1", "0", "9", "0", "1">>
D20201301 == <<"2", "0", "2", "0", "1", "3", "0", "1">>      \* no such month

KindNodes ==
    {NoneNode, Str(<<"A">>), Str(<<"a">>), Str(<<"B">>), Str(<<"c">>), Str(<<"U">>),
     Str(<<"u">>), Str(<<"Y">>), Str(<<"y">>), Str(<<"A", "1">>),
     Dict(<<KV("@lang", Str(<<"zh">>)), KV("#text", Str(<<"A">>))>>)}

AppNumbers == {None, Some(<<>>), Some(<<"1", "2">>), Some(<<"1", "2", ".", "0">>)}
PubNumbers == {None, Some(<<"7", "7">>)}
AppDates == {None, Some(D20200115), Some(D20201301)}
PubDates == {None, Some(D20200301), Some(D20210701), Some(D20210901)}

\* the other bibliographic look-ups: everything found, or nothing
FullProfile ==
    [cpc |-> Some(<<"G06F">>), applicant |-> Some(<<"acme">>),
     inventor |-> Some(<<"li">>), agent |-> Some(<<"wu">>), title |-> Some(<<"w1">>),
     summary |-> Some(<<"w2">>), claims |-> Some(<<"w3">>)]

EmptyProfile ==
    [cpc |-> None, applicant |-> None, inventor |-> None, agent |-> None,
     title |-> None, summary |-> None, claims |-> None]

Profiles == {FullProfile, EmptyProfile}

Bib(kind, app_number, app_date, pub_number, pub_date, prof) ==
    [kind |-> kind, app_number |-> app_number, app_date |-> app_date,
     pub_number |-> pub_number, pub_date |-> pub_date, cpc |-> prof.cpc,
     applicant |-> prof.applicant, inventor |-> prof.inventor, agent |-> prof.agent,
     title |-> prof.title, summary |-> prof.summary, claims |-> prof.claims]

EmptyBib == Bib(NoneNode, None, None, None, None, EmptyProfile)

P(tok) == Str(<<tok>>)

\* description nodes
Descriptions ==
    {Str(<<"w1">>),
     Dict(<<KV("@id", Str(<<"d1">>))>>),
     Dict(<<KV("drawings-description", Str(<<"w1", "t", "w2">>)),
            KV("detailed-description", Str(<<"w3">>))>>),
     Dict(<<KV("drawings", Str(<<"w1">>)), KV("p", List(<<P("w2"), P("w3")>>))>>),
     Dict(<<KV("InventionMode", Str(<<"w3">>)), KV("p", P("w2"))>>),
     Dict(<<KV("DrawingsDescription", Str(<<"t">>)),
            KV("embodiments", Str(<<"w3">>))>>),
     Dict(<<KV("p", List(<<P("w1"), P("D"), P("w2"), P("E"), P("w3")>>))>>),
     Dict(<<KV("p", List(<<P("D"), P("E"), P("w3")>>))>>),
     Dict(<<KV("p", List(<<P("w1"), P("D"), P("w2")>>))>>),
     Dict(<<KV("p", List(<<P("E"), P("w3")>>))>>),
     Dict(<<KV("p", List(<<P("w1"), P("w2")>>))>>),
     Dict(<<KV("drawings", Str(<<"w1">>)),
            KV("Paragraphs", List(<<P("D"), P("w2"), P("E"), P("w3")>>))>>),
     Dict(<<KV("p", List(<<P("DL"), P("w2"), P("EL"), P("w3")>>))>>)}

\* root values: the description under application-body, directly under the root,
\* or nowhere; and roots that are no mapping
Roots ==
    {Dict(<<KV("application-body", Dict(<<KV("description", d)>>))>>) : d \in Descriptions}
    \cup {Dict(<<KV("Description", d)>>) : d \in Descriptions}
    \cup {Dict(<<KV("BibliographicData", Str(<<"w1">>))>>),
          Dict(<<KV("application-body", Dict(<<KV("claims", Str(<<"w3">>))>>))>>),
          Dict(<<KV("application-body", NoneNode)>>)}

NonDictRoots == {NoneNode, Str(<<"w1">>)}

RootKeys ==
    {<<"cn-patent-document">>, <<"CN-Patent-Document", "-v2">>,
     <<"PatentDocumentAndRelated">>, <<"Kr", "PATENTDOCUMENTANDRELATED">>,
     <<"patentdocumentandrelated", "-x">>, <<"unknown-root">>}

File(path, read, xml, root_key, root, bib) ==
    [path |-> path, read |-> read, xml |-> xml, root_key |-> root_key, root |-> root,
     bib |-> bib]

\* files that are read and parsed into a mapping
WellFormedFiles(path) ==
    {File(path, "ok", "ok", rk, root, Bib(k, an, ad, pn, pd, prof)) :
        rk \in RootKeys, root \in Roots, k \in KindNodes, an \in AppNumbers,
        ad \in AppDates, pn \in PubNumbers, pd \in PubDates, prof \in Profiles}

\* files that cannot be read, are not XML, or whose root holds no mapping
BrokenFiles(path) ==
    {File(path, rd, "ok", <<"cn-patent-document">>, NoneNode, EmptyBib) :
        rd \in {"missing", "oserror"}}
    \cup {File(path, "ok", "malformed", <<"cn-patent-document">>, NoneNode, EmptyBib)}
    \cup {File(path, "ok", "ok", rk, root, EmptyBib) :
            rk \in RootKeys, root \in NonDictRoots}

Files(path) == WellFormedFiles(path) \cup BrokenFiles(path)

-----------------------------------------------------------------------------
(* Statistics *)

\* the accumulators kept once per chunk and once per year: the item count, the
\* per-field success counts (a defaultdict: a field is a key once it was counted),
\* the Kind-A counters and the description-fallback counters
ZeroStats ==
    [items |-> 0,
     fields |-> [f \in Fields |-> 0],
     kind_A |-> [OpenNumber_success |-> 0, OpenDate_success |-> 0, total_A_items |-> 0],
     desc_fallback |-> [Description_success_when_partial_missing |-> 0,
                        total_partial_missing_items |-> 0]]

B2N(b) == IF b THEN 1 ELSE 0

\* UpdateStats that counts the fields of a record but not the record
UpdateStatsNoItem(acc, parsed_data, extraction_status) ==
    LET isA == parsed_data.Kind = Some(<<"A">>)
        partial == ~Truthy(parsed_data.BriefDescriptionOfDrawings)
                   \/ ~Truthy(parsed_data.DescriptionOfEmbodiments)
    IN [items |-> acc.items,
        fields |-> [f \in Fields |-> acc.fields[f] + B2N(extraction_status[f])],
        kind_A |->
            [total_A_items |-> acc.kind_A.total_A_items + B2N(isA),
             OpenNumber_success |-> acc.kind_A.OpenNumber_success
                                    + B2N(isA /\ extraction_status["OpenNumber"]),
             OpenDate_success |-> acc.kind_A.OpenDate_success
                                  + B2N(isA /\ extraction_status["OpenDate"])],
        desc_fallback |->
            [total_partial_missing_items |->
                acc.desc_fallback.total_partial_missing_items + B2N(partial),
             Description_success_when_partial_missing |->
                acc.desc_fallback.Description_success_when_partial_missing
                + B2N(partial /\ extraction_status["Description"])]]

\* the update of one level's accumulators by one parsed record
UpdateStats(acc, parsed_data, extraction_status) ==
    LET isA == parsed_data.Kind = Some(<<"A">>)
        partial == ~Truthy(parsed_data.BriefDescriptionOfDrawings)
                   \/ ~Truthy(parsed_data.DescriptionOfEmbodiments)
    IN [items |-> acc.items + 1,
        fields |-> [f \in Fields |-> acc.fields[f] + B2N(extraction_status[f])],
        kind_A |->
            [total_A_items |-> acc.kind_A.total_A_items + B2N(isA),
             OpenNumber_success |-> acc.kind_A.OpenNumber_success
                                    + B2N(isA /\ extraction_status["OpenNumber"]),
             OpenDate_success |-> acc.kind_A.OpenDate_success
                                  + B2N(isA /\ extraction_status["OpenDate"])],
        desc_fallback |->
            [total_partial_missing_items |->
                acc.desc_fallback.total_partial_missing_items + B2N(partial),
             Description_success_when_partial_missing |->
                acc.desc_fallback.Description_success_when_partial_missing
                + B2N(partial /\ extraction_status["Description"])]]

\* sorted(field_success_counts.items())
SortedFields == <<"AgentName", "ApplicantName", "ApplicationDate", "ApplicationNumber",
                  "BriefDescriptionOfDrawings", "Claims", "Description",
                  "DescriptionOfEmbodiments", "InventorName", "Kind", "MainCPC",
                  "OpenDate", "OpenNumber", "PublicationDate", "PublicationNumber",
                  "RegisterDate", "RegisterNumber", "Summary", "SummaryOfInvention",
                  "Title">>

\* a rate is kept as the fraction count * 100 / total (the rounding to two
\* decimals is not modelled); a block that holds only a message has message = TRUE
Rate(count, total) == [num |-> count * 100, den |-> total]

\* KindABlock without the test of total_A_items
KindABlockUnguarded(kind_A_stats) ==
    [message |-> FALSE,
     target_A_documents |-> kind_A_stats.total_A_items,
     OpenNumber_success_count |-> kind_A_stats.OpenNumber_success,
     OpenNumber_success_rate_percent |->
        Rate(kind_A_stats.OpenNumber_success, kind_A_stats.total_A_items),
     OpenDate_success_count |-> kind_A_stats.OpenDate_success,
     OpenDate_success_rate_percent |->
        Rate(kind_A_stats.OpenDate_success, kind_A_stats.total_A_items)]

\* the kind_A_special_stats block: the rates, or a message when no Kind-A
\* document was counted
KindABlock(kind_A_stats) ==
    IF kind_A_stats.total_A_items > 0
    THEN [message |-> FALSE,
          target_A_documents |-> kind_A_stats.total_A_items,
          OpenNumber_success_count |-> kind_A_stats.OpenNumber_success,
          OpenNumber_success_rate_percent |->
             Rate(kind_A_stats.OpenNumber_success, kind_A_stats.total_A_items),
          OpenDate_success_count |-> kind_A_stats.OpenDate_success,
          OpenDate_success_rate_percent |->
             Rate(kind_A_stats.OpenDate_success, kind_A_stats.total_A_items)]
    ELSE [message |-> TRUE, target_A_documents |-> 0,
          OpenNumber_success_count |-> 0,
          OpenNumber_success_rate_percent |-> Rate(0, 0),
          OpenDate_success_count |-> 0,
          OpenDate_success_rate_percent |-> Rate(0, 0)]

generate_stats_dict(items_count, field_success_counts, kind_A_stats, desc_fallback_stats) ==
    LET counted == SelectSeq(SortedFields, LAMBDA f : field_success_counts[f] > 0)
    IN [summary |-> [total_processed_items |-> items_count],
        field_extraction_success_rate |->
            IF items_count > 0
            THEN [i \in 1..Len(counted) |->
                    [field |-> counted[i],
                     success_count |-> field_success_counts[counted[i]],
                     total_items |-> items_count,
                     success_rate_percent |->
                        Rate(field_success_counts[counted[i]], items_count)]]
            ELSE <<>>,
        kind_A_special_stats |->
            KindABlock(kind_A_stats),
        description_fallback_stats |->
            IF desc_fallback_stats.total_partial_missing_items > 0
            THEN [message |-> FALSE,
                  target_documents_missing_drawings_or_embodiments |->
                     desc_fallback_stats.total_partial_missing_items,
                  Description_extraction_success_count |->
                     desc_fallback_stats.Description_success_when_partial_missing,
                  Description_extraction_success_rate_percent |->
                     Rate(desc_fallback_stats.Description_success_when_partial_missing,
                          desc_fallback_stats.total_partial_missing_items)]
            ELSE [message |-> TRUE,
                  target_documents_missing_drawings_or_embodiments |-> 0,
                  Description_extraction_success_count |-> 0,
                  Description_extraction_success_rate_percent |-> Rate(0, 0)]]

StatsReport(acc) == generate_stats_dict(acc.items, acc.fields, acc.kind_A, acc.desc_fallback)

-----------------------------------------------------------------------------
(* batch_convert and process_year.                                          *)
(* Sizes are counted in MiB, so that a gigabyte is 1024 of them.  The       *)
(* serialised size of a record, len(json.dumps(parsed_data)), is an input   *)
(* drawn per record; current_chunk_sizes keeps the sizes of the records of  *)
(* the active chunk beside current_size_bytes, their running sum.           *)

MaxFiles == 3              \* files in the input folder, all years together
MaxItemsPerFile == 2       \* largest max_items_per_file the model configures
MiBPerGiB == 1024

Years == <<"2021", "2022">>
ItemSizes == {400, 1100}

DescMarked == Dict(<<KV("p", List(<<P("D"), P("w2"), P("E"), P("w3")>>))>>)
DescPlain == Dict(<<KV("p", List(<<P("w1"), P("w2")>>))>>)

\* what a file of the input folder may hold
BatchFiles(path) ==
    {File(path, "ok", "ok", <<"cn-patent-document">>,
          Dict(<<KV("application-body", Dict(<<KV("description", DescMarked)>>))>>),
          Bib(Str(<<"A">>), Some(<<"1", "2", ".", "0">>), Some(D20200115),
              Some(<<"7", "7">>), Some(D20200301), FullProfile)),
     File(path, "ok", "ok", <<"PatentDocumentAndRelated">>,
          Dict(<<KV("Description", DescPlain)>>),
          Bib(Str(<<"B">>), None, None, Some(<<"7", "7">>), Some(D20210901),
              EmptyProfile)),
     File(path, "ok", "ok", <<"cn-patent-document">>,
          Dict(<<KV("description", Str(<<"w1">>))>>),
          Bib(Str(<<"A">>), Some(<<"1", "2">>), None, None, None, EmptyProfile)),
     File(path, "ok", "malformed", <<"cn-patent-document">>, NoneNode, EmptyBib)}

YearLocals ==
    [chunk_count |-> 0,
     current_chunk_data |-> <<>>,
     current_chunk_sizes |-> <<>>,
     current_size_bytes |-> 0,
     success_count |-> 0,
     fail_count |-> 0,
     failed_files |-> <<>>,
     year_stats |-> ZeroStats,
     yearly_total_missing_item_reports |-> <<>>,
     chunk_stats |-> ZeroStats,
     current_chunk_missing_details_list |-> <<>>]

EmptyDisk ==
    [chunks |-> {}, year_stats |-> {}, year_missing |-> {},
     overall_stats |-> None, overall_missing |-> None, failures_log |-> None]

GrandInit ==
    [total_success_all_years |-> 0,
     total_fail_all_years |-> 0,
     all_failed_files_reports |-> <<>>,
     stats |-> ZeroStats,
     grand_missing_item_reports_list |-> <<>>]

max_size_bytes(c) == c.max_file_size_gb * MiBPerGiB

\* ShouldSeal with ">" where the code has ">=" on the number of records
ShouldSealOverCount(current_chunk_data, current_size_bytes, item_size, max_items_per_file, max_size) ==
    /\ current_chunk_data # <<>>
    /\ \/ Len(current_chunk_data) > max_items_per_file
       \/ current_size_bytes + item_size > max_size

\* ShouldSeal without the test of the cumulative size
ShouldSealCountOnly(current_chunk_data, current_size_bytes, item_size, max_items_per_file, max_size) ==
    /\ current_chunk_data # <<>>
    /\ Len(current_chunk_data) >= max_items_per_file

\* the condition under which the loop seals the active chunk before it appends
ShouldSeal(current_chunk_data, current_size_bytes, item_size, max_items_per_file, max_size) ==
    /\ current_chunk_data # <<>>
    /\ \/ Len(current_chunk_data) >= max_items_per_file
       \/ current_size_bytes + item_size > max_size

\* <year>_chunk_<n>.json with its statistics report and, when the list is not
\* empty, its missing-items report; a file of the same name is replaced
\* WriteChunk under a file name that does not hold the chunk number
WriteChunkSameName(d, y, n, data, sizes, stats, missing_list) ==
    [d EXCEPT !.chunks =
        {c \in @ : ~(c.year = y /\ c.n = 1)}
        \cup {[year |-> y, n |-> 1, data |-> data, sizes |-> sizes,
               stats |-> stats,
               missing |-> IF missing_list # <<>> THEN Some(missing_list) ELSE None]}]

WriteChunk(d, y, n, data, sizes, stats, missing_list) ==
    [d EXCEPT !.chunks =
        {c \in @ : ~(c.year = y /\ c.n = n)}
        \cup {[year |-> y, n |-> n, data |-> data, sizes |-> sizes,
               stats |-> stats,
               missing |-> IF missing_list # <<>> THEN Some(missing_list) ELSE None]}]

\* one iteration of the consumer loop on a result that was returned:
\* the new locals and the new disk
LoopBody(y, d, yname, c, res, item_size) ==
    IF res.error # None
    THEN [yr |-> [y EXCEPT !.fail_count = @ + 1,
                           !.failed_files = Append(@, <<res.path, Val(res.error)>>)],
          disk |-> d]
    ELSE LET parsed_data == Val(res.data)
             ystats == UpdateStats(y.year_stats, parsed_data, res.status)
             ymiss == IF res.missing # None
                      THEN Append(y.yearly_total_missing_item_reports, Val(res.missing))
                      ELSE y.yearly_total_missing_item_reports
             cmiss == IF res.missing # None
                      THEN Append(y.current_chunk_missing_details_list, Val(res.missing))
                      ELSE y.current_chunk_missing_details_list
             cstats == UpdateStats(y.chunk_stats, parsed_data, res.status)
             counted == [y EXCEPT !.success_count = @ + 1,
                                  !.year_stats = ystats,
                                  !.yearly_total_missing_item_reports = ymiss]
         IN IF ShouldSeal(y.current_chunk_data, y.current_size_bytes, item_size,
                          c.max_items_per_file, max_size_bytes(c))
            THEN [yr |-> [counted EXCEPT
                            !.chunk_count = @ + 1,
                            !.current_chunk_data = <<parsed_data>>,
                            !.current_chunk_sizes = <<item_size>>,
                            !.current_size_bytes = item_size,
                            !.chunk_stats = ZeroStats,
                            !.current_chunk_missing_details_list = <<>>],
                  disk |-> WriteChunk(d, yname, y.chunk_count + 1, y.current_chunk_data,
                                      y.current_chunk_sizes, StatsReport(cstats), cmiss)]
            ELSE [yr |-> [counted EXCEPT
                            !.current_chunk_data = Append(@, parsed_data),
                            !.current_chunk_sizes = Append(@, item_size),
                            !.current_size_bytes = @ + item_size,
                            !.chunk_stats = cstats,
                            !.current_chunk_missing_details_list = cmiss],
                  disk |-> d]

\* what process_year returns: (success, fail, failed_files, year_result_data)
YearResult(yname, y, how) ==
    [year |-> yname, how |-> how,
     success |-> y.success_count, fail |-> y.fail_count,
     failed_files |-> y.failed_files,
     data |-> Some([full_year_stats_report_data |-> StatsReport(y.year_stats),
                    yearly_missing_items |-> y.yearly_total_missing_item_reports])]

\* return 0, 0, [], {}  for a year without files
EmptyYearResult(yname) ==
    [year |-> yname, how |-> "empty", success |-> 0, fail |-> 0,
     failed_files |-> <<>>, data |-> None]

RECURSIVE SumCounts(_, _)
\* the sum of success_count over the entries of a report's list for one field
SumCounts(list, f) ==
    IF list = <<>> THEN 0
    ELSE (IF Head(list).field = f THEN Head(list).success_count ELSE 0)
         + SumCounts(Tail(list), f)

\* AddKindA with "=" where the code has "+="
AddKindAAssign(kind_A, ka) ==
    IF ka.message THEN kind_A
    ELSE [total_A_items |-> ka.target_A_documents,
          OpenNumber_success |-> ka.OpenNumber_success_count,
          OpenDate_success |-> ka.OpenDate_success_count]

\* grand_kind_A_stats += the year's Kind-A block, unless it holds only a message
AddKindA(kind_A, ka) ==
    IF ka.message THEN kind_A
    ELSE [total_A_items |-> kind_A.total_A_items + ka.target_A_documents,
          OpenNumber_success |-> kind_A.OpenNumber_success + ka.OpenNumber_success_count,
          OpenDate_success |-> kind_A.OpenDate_success + ka.OpenDate_success_count]

\* grand_desc_fallback_stats += the year's block, unless it holds only a message
AddDescFallback(desc_fallback, df) ==
    IF df.message THEN desc_fallback
    ELSE [total_partial_missing_items |->
              desc_fallback.total_partial_missing_items
              + df.target_documents_missing_drawings_or_embodiments,
          Description_success_when_partial_missing |->
              desc_fallback.Description_success_when_partial_missing
              + df.Description_extraction_success_count]

\* batch_convert's accumulation of one year's return value
FoldYear(g, ret) ==
    LET rep == Val(ret.data).full_year_stats_report_data
        st == g.stats
        stats ==
            IF ret.data = None THEN st
            ELSE [items |-> st.items + rep.summary.total_processed_items,
                  fields |-> [f \in Fields |->
                      st.fields[f] + SumCounts(rep.field_extraction_success_rate, f)],
                  kind_A |-> AddKindA(st.kind_A, rep.kind_A_special_stats),
                  desc_fallback |-> AddDescFallback(st.desc_fallback,
                                                    rep.description_fallback_stats)]
    IN [total_success_all_years |-> g.total_success_all_years + ret.success,
        total_fail_all_years |-> g.total_fail_all_years + ret.fail,
        all_failed_files_reports |-> g.all_failed_files_reports \o ret.failed_files,
        stats |-> stats,
        grand_missing_item_reports_list |->
            IF ret.data = None THEN g.grand_missing_item_reports_list
            ELSE g.grand_missing_item_reports_list \o Val(ret.data).yearly_missing_items]

-----------------------------------------------------------------------------
(* Specification Spec: batch_convert over the years of the input folder *)

Init ==
    /\ doc = <<>> /\ result = None
    /\ pc = "next_year"
    /\ cfg \in [max_items_per_file : 1..MaxItemsPerFile, max_file_size_gb : {1}]
    /\ todo = Years
    /\ budget = MaxFiles
    /\ year = ""
    /\ pending = {}
    /\ nfiles = 0
    /\ yr = YearLocals
    /\ disk = EmptyDisk
    /\ returned = <<>>
    /\ grand = GrandInit

\* batch_convert takes the next year: collect_xmls_for_year, then process_year up
\* to the start of its loop (or its early return when the year has no files)
StartYear ==
    /\ pc = "next_year" /\ todo # <<>>
    /\ \E n \in 0..budget :
        /\ budget' = budget - n
        /\ nfiles' = n
        /\ pending' = {<<Head(todo), i>> : i \in 1..n}
        /\ IF n = 0
           THEN /\ pc' = "fold"
                /\ returned' = Append(returned, EmptyYearResult(Head(todo)))
           ELSE /\ pc' = "loop"
                /\ UNCHANGED returned
    /\ year' = Head(todo)
    /\ todo' = Tail(todo)
    /\ yr' = YearLocals
    /\ UNCHANGED <<doc, result, cfg, disk, grand>>

\* the loop body on one result of the pool; an exception raised by the worker
\* is re-raised here and ends process_year in its except Exception handler.
\* item_size is len(json.dumps(parsed_data)) of a record that was parsed.
Handle(path, res) ==
    /\ pending' = pending \ {path}
    /\ IF res.raised
       THEN /\ pc' = "fold"
            /\ returned' = Append(returned, YearResult(year, yr, "error"))
            /\ UNCHANGED <<yr, disk>>
       ELSE /\ \E item_size \in (IF res.error # None THEN {0} ELSE ItemSizes) :
                /\ yr' = LoopBody(yr, disk, year, cfg, res, item_size).yr
                /\ disk' = LoopBody(yr, disk, year, cfg, res, item_size).disk
            /\ UNCHANGED <<pc, returned>>

\* one result arrives from imap_unordered.  What a file holds is chosen when its
\* result arrives, so the order of arrival is free although the paths are taken
\* in the order of their index.
Consume ==
    /\ pc = "loop"
    /\ \E path \in pending :
        /\ \A other \in pending : path[2] <= other[2]
        /\ \E f \in BatchFiles(path) : Handle(path, process_xml_file(f))
    /\ UNCHANGED <<doc, result, cfg, todo, budget, year, nfiles, grand>>

\* the loop is exhausted: the records left in the active chunk are written
SealLast ==
    /\ pc = "loop" /\ pending = {}
    /\ IF yr.current_chunk_data # <<>>
       THEN /\ yr' = [yr EXCEPT !.chunk_count = @ + 1]
            /\ disk' = WriteChunk(disk, year, yr.chunk_count + 1, yr.current_chunk_data,
                                  yr.current_chunk_sizes, StatsReport(yr.chunk_stats),
                                  yr.current_chunk_missing_details_list)
       ELSE UNCHANGED <<yr, disk>>
    /\ pc' = "year_report"
    /\ UNCHANGED <<doc, result, cfg, todo, budget, year, pending, nfiles,
                   returned, grand>>

\* the year-level reports are written and process_year returns
YearReport ==
    /\ pc = "year_report"
    /\ disk' = [disk EXCEPT
                  !.year_stats = @ \cup {[year |-> year,
                                          report |-> StatsReport(yr.year_stats)]},
                  !.year_missing =
                      IF yr.yearly_total_missing_item_reports # <<>>
                      THEN @ \cup {[year |-> year,
                                    list |-> yr.yearly_total_missing_item_reports]}
                      ELSE @]
    /\ returned' = Append(returned, YearResult(year, yr, "normal"))
    /\ pc' = "fold"
    /\ UNCHANGED <<doc, result, cfg, todo, budget, year, pending, nfiles, yr, grand>>

\* KeyboardInterrupt between two iterations of the loop (or before the last chunk
\* is written): the handler returns the year-level statistics gathered so far
Interrupt ==
    /\ pc = "loop"
    /\ returned' = Append(returned, YearResult(year, yr, "interrupt"))
    /\ pc' = "fold"
    /\ UNCHANGED <<doc, result, cfg, todo, budget, year, pending, nfiles, yr,
                   disk, grand>>

\* batch_convert adds what process_year returned to its accumulators
Fold ==
    /\ pc = "fold"
    /\ grand' = FoldYear(grand, returned[Len(returned)])
    /\ pc' = "next_year"
    /\ UNCHANGED <<doc, result, cfg, todo, budget, year, pending, nfiles, yr,
                   disk, returned>>

\* after the last year: the overall reports.  The summary line printed after them
\* reads overall_missing_items_file_path, which is bound only when the overall
\* missing list is not empty; otherwise batch_convert ends there in a NameError
\* and the failure log that follows is not written.
Finish ==
    /\ pc = "next_year" /\ todo = <<>>
    /\ LET g == grand
           d1 == [disk EXCEPT
                    !.overall_stats = Some(StatsReport(g.stats)),
                    !.overall_missing =
                        IF g.grand_missing_item_reports_list # <<>>
                        THEN Some(g.grand_missing_item_reports_list) ELSE None]
       IN IF g.grand_missing_item_reports_list = <<>>
          THEN /\ disk' = d1
               /\ pc' = "crashed"
          ELSE /\ disk' = [d1 EXCEPT !.failures_log =
                              IF g.all_failed_files_reports # <<>>
                              THEN Some(g.all_failed_files_reports) ELSE None]
               /\ pc' = "done"
    /\ UNCHANGED <<doc, result, cfg, todo, budget, year, pending, nfiles, yr,
                   returned, grand>>

Next == StartYear \/ Consume \/ SealLast \/ YearReport \/ Interrupt \/ Fold \/ Finish

Spec == Init /\ [][Next]_vars

-----------------------------------------------------------------------------
(* Specification SpecParse: process_xml_file applied to one file *)

Idle ==
    /\ pc = "idle" /\ cfg = <<>> /\ todo = <<>> /\ budget = 0 /\ year = "" /\ pending = {}
    /\ nfiles = 0 /\ yr = <<>> /\ disk = <<>> /\ returned = <<>>
    /\ grand = <<>>

InitParse ==
    /\ doc \in Files(<<"2021", 1>>)
    /\ result = None
    /\ Idle

ParseFile ==
    /\ result = None
    /\ result' = Some(process_xml_file(doc))
    /\ UNCHANGED <<doc, batchVars>>

NextParse == ParseFile

SpecParse == InitParse /\ [][NextParse]_vars

-----------------------------------------------------------------------------
(* Specification SpecHelpers: safe_get, clean_application_number,           *)
(* extract_description_sections, calculate_date_diff and                    *)
(* read_xml_with_encoding, each applied to one input                        *)

\* a value with its text and an attribute, as xmltodict gives for <name lang="x">a</name>
HashTextWrapper == Dict(<<KV("@lang", Str(<<"x">>)), KV("#text", Str(<<"a">>))>>)
TextWrapper == Dict(<<KV("text", Str(<<"b">>))>>)

\* a dict that stores v under the key looked up
Holder(v) == Dict(<<KV("name", v)>>)

\* what a document may store under the key
StoredValues ==
    {NoneNode, Str(<<"a">>), HashTextWrapper, TextWrapper,
     Dict(<<KV("@id", Str(<<"d1">>))>>),
     List(<<Str(<<"a">>), Str(<<"b">>)>>),
     List(<<Holder(Str(<<"b">>)), Holder(HashTextWrapper)>>),
     Holder(Str(<<"b">>))}

SomeStoredValues == {Str(<<"a">>), Str(<<"b">>), HashTextWrapper, TextWrapper}

\* the structures safe_get searches: the key directly in the node, one level
\* below, in the elements of a list, at two depths, in two branches, or nowhere
SearchedNodes ==
    {Holder(v) : v \in StoredValues}
    \cup {Dict(<<KV("other", Holder(v))>>) : v \in StoredValues}
    \cup {List(<<Holder(v), Holder(w)>>) : v, w \in SomeStoredValues}
    \cup {Dict(<<KV("name", v), KV("other", Holder(w))>>) : v, w \in SomeStoredValues}
    \cup {Dict(<<KV("first", Holder(v)), KV("rest", List(<<Holder(w)>>))>>) :
            v, w \in SomeStoredValues}
    \cup {NoneNode, Str(<<"a">>), List(<<>>), Dict(<<KV("other", Str(<<"a">>))>>)}

\* application numbers: absent, empty, digits, with one or several decimal
\* points, and numbers
CleanedValues ==
    {None, Some(<<>>), Some(<<"1", "2">>), Some(<<"1", "2", ".", "0">>),
     Some(<<"1", ".", "2", ".", "3">>), Some(<<".", "5">>), Some(<<"1", "2", ".">>),
     Some(Num(<<"1", "2">>)), Some(Num(<<"1", "2", ".", "5">>)),
     Some(Num(<<"0">>)), Some(Num(<<"0", ".", "0">>))}

\* the longest paragraph list handed to extract_description_sections
MaxParagraphs == 5

\* one-line paragraphs: prose, a drawings marker, an embodiments marker
ParagraphLines == {"w1", "w2", "D", "E"}

\* the paragraph lists of at most MaxParagraphs paragraphs
ParagraphLists ==
    UNION {[1..n -> {P(line) : line \in ParagraphLines}] : n \in 0..MaxParagraphs}

\* the dates handed to calculate_date_diff: absent, empty, days of the calendar,
\* eight digits that are no day, and strings that are not eight digits
DateValues ==
    {None, Some(<<>>), Some(D20200115), Some(D20200301), Some(D20210901),
     Some(<<"1", "9", "9", "9", "1", "2", "3", "1">>),
     Some(<<"2", "0", "2", "0", "0", "2", "2", "9">>),
     Some(D20201301),
     Some(<<"2", "0", "1", "9", "0", "2", "2", "9">>),
     Some(<<"2", "0", "2", "0", "0", "0", "1", "5">>),
     Some(<<"2", "0", "2", "0", "1", "1", "5">>),
     Some(<<"2", "0", "2", "0", "0", "1", " ", "5">>),
     Some(<<"2", "0", "2", "0">>),
     Some(<<"2", "0", "2", "0", "-", "0", "1", "-", "1", "5">>)}

\* the files handed to read_xml_with_encoding: of every byte class, missing and
\* unreadable, holding XML or not
ReadFiles ==
    {File(<<"2021", 1>>, rd, x, <<"cn-patent-document">>, NoneNode, EmptyBib) :
        rd \in ByteClasses \cup {"missing", "oserror"}, x \in {"ok", "malformed"}}

Call(op, obj, key, arg) == [op |-> op, obj |-> obj, key |-> key, arg |-> arg, applied |-> 0]

InitHelpers ==
    /\ doc \in {Call("safe_get", n, "name", None) : n \in SearchedNodes}
               \cup {Call("clean_application_number", NoneNode, "", a) : a \in CleanedValues}
               \cup {Call("extract_description_sections", List(ps), "", None) :
                        ps \in ParagraphLists}
               \cup {Call("calculate_date_diff", NoneNode, "", <<a, b>>) :
                        a, b \in DateValues}
               \cup {Call("read_xml_with_encoding", NoneNode, "", f) : f \in ReadFiles}
    /\ result = None
    /\ Idle

\* result = safe_get(obj, key)
Lookup ==
    /\ doc.op = "safe_get" /\ doc.applied = 0
    /\ result' = Some(safe_get(doc.obj, doc.key))
    /\ doc' = [doc EXCEPT !.applied = 1]
    /\ UNCHANGED batchVars

\* result = clean_application_number(arg), and once more on what it returned
Clean ==
    /\ doc.op = "clean_application_number" /\ doc.applied < 2
    /\ result' = Some(clean_application_number(IF doc.applied = 0 THEN doc.arg
                                               ELSE Val(result)))
    /\ doc' = [doc EXCEPT !.applied = @ + 1]
    /\ UNCHANGED batchVars

\* result = extract_description_sections(paragraphs)
ExtractSections ==
    /\ doc.op = "extract_description_sections" /\ doc.applied = 0
    /\ result' = Some(extract_description_sections(doc.obj.items))
    /\ doc' = [doc EXCEPT !.applied = 1]
    /\ UNCHANGED batchVars

\* result = calculate_date_diff(app_date, pub_date)
DateDiff ==
    /\ doc.op = "calculate_date_diff" /\ doc.applied = 0
    /\ result' = Some(calculate_date_diff(doc.arg[1], doc.arg[2]))
    /\ doc' = [doc EXCEPT !.applied = 1]
    /\ UNCHANGED batchVars

\* result = what read_xml_with_encoding(file_path) returns and what
\* process_xml_file(file_path) makes of it
ReadFile ==
    /\ doc.op = "read_xml_with_encoding" /\ doc.applied = 0
    /\ result' = Some([read |-> read_xml_with_encoding(doc.arg),
                        processed |-> process_xml_file(doc.arg)])
    /\ doc' = [doc EXCEPT !.applied = 1]
    /\ UNCHANGED batchVars

NextHelpers == Lookup \/ Clean \/ ExtractSections \/ DateDiff \/ ReadFile

SpecHelpers == InitHelpers /\ [][NextHelpers]_vars

-----------------------------------------------------------------------------
(* Specification SpecSearch: safe_get on an object graph, one iteration of  *)
(* its loop per step.  The objects live in a heap indexed by identity, so   *)
(* that a dict or a list may be stored in several places and may contain    *)
(* itself.  An object is a str, a list of references or a dict of           *)
(* (key, reference) pairs in insertion order.                               *)

NodeIds == {"o1", "o2", "o3"}

StrObject == [t |-> "str", keys |-> <<>>, refs |-> <<>>]
ListObject(refs) == [t |-> "list", keys |-> <<>>, refs |-> refs]
DictObject(keys, refs) == [t |-> "dict", keys |-> keys, refs |-> refs]

\* the objects of a heap: a str, a list of one or two references, a dict
\* with the key looked up, with "#text", or with both
Objects ==
    {StrObject}
    \cup {ListObject(refs) : refs \in [1..1 -> NodeIds] \cup [1..2 -> NodeIds]}
    \cup {DictObject(<<k>>, refs) : k \in {"name", "#text"}, refs \in [1..1 -> NodeIds]}
    \cup {DictObject(<<"name", "#text">>, refs) : refs \in [1..2 -> NodeIds]}

Heaps == [NodeIds -> Objects]

\* the iterations of the loop a run may take before the model stops it
MaxPops == 16

IsContainer(o) == o.t \in {"dict", "list"}

\* key in current, and current[key]
InDict(o, key) == \E i \in 1..Len(o.keys) : o.keys[i] = key
At(o, key) == o.refs[CHOOSE i \in 1..Len(o.keys) : o.keys[i] = key]

\* line 71: current_id in visited
SeenNever(current, visited) == FALSE
Seen(current, visited) == current \in visited

\* lines 77-91: what a dict holding the key adds to results and to the queue
MatchedResults(heap, o, key) ==
    IF ~InDict(o, key) THEN <<>>
    ELSE LET value == heap[At(o, key)] IN
         IF value.t = "dict"
           THEN IF InDict(value, "#text") THEN <<At(value, "#text")>>
                ELSE IF InDict(value, "text") THEN <<At(value, "text")>>
                ELSE <<At(o, key)>>
         ELSE IF value.t = "list" /\ value.refs # <<>> THEN <<>>
         ELSE <<At(o, key)>>

MatchedElements(heap, o, key) ==
    IF InDict(o, key) /\ heap[At(o, key)].t = "list" THEN heap[At(o, key)].refs ELSE <<>>

\* lines 64-100: one iteration of the while loop
Iteration(heap, key, s) ==
    LET current == Head(s.queue)
        o == heap[current]
        popped == [s EXCEPT !.queue = Tail(s.queue), !.pops = @ + 1]
    IN  IF IsContainer(o) /\ Seen(current, s.visited) THEN popped
        ELSE IF o.t = "dict"
          THEN [popped EXCEPT !.visited = @ \cup {current},
                              !.expanded[current] = @ + 1,
                              !.results = @ \o MatchedResults(heap, o, key),
                              !.queue = @ \o MatchedElements(heap, o, key) \o o.refs]
        ELSE IF o.t = "list"
          THEN [popped EXCEPT !.visited = @ \cup {current},
                              !.expanded[current] = @ + 1,
                              !.queue = @ \o o.refs]
        ELSE popped

SearchState(pos, queue, ret) ==
    [pos |-> pos, queue |-> queue, visited |-> {}, results |-> <<>>,
     expanded |-> [n \in NodeIds |-> 0], pops |-> 0, ret |-> ret]

InitSearch ==
    /\ doc \in {[heap |-> h, obj |-> "o1", key |-> "name"] : h \in Heaps}
    /\ result = SearchState("call", <<>>, None)
    /\ Idle

\* lines 53-63: the fast path, or the queue holding obj
EnterSearch ==
    /\ result.pos = "call"
    /\ result' = IF doc.heap[doc.obj].t = "dict" /\ InDict(doc.heap[doc.obj], doc.key)
                   THEN SearchState("done", <<>>, Some(At(doc.heap[doc.obj], doc.key)))
                 ELSE SearchState("loop", <<doc.obj>>, None)
    /\ UNCHANGED <<doc, batchVars>>

SearchStep ==
    /\ result.pos = "loop" /\ result.queue # <<>> /\ result.pops < MaxPops
    /\ result' = Iteration(doc.heap, doc.key, result)
    /\ UNCHANGED <<doc, batchVars>>

\* lines 105-110
ReturnResults ==
    /\ result.pos = "loop" /\ result.queue = <<>>
    /\ result' = [result EXCEPT !.pos = "done",
                                !.ret = IF Len(result.results) = 1 THEN Some(result.results[1])
                                        ELSE IF result.results # <<>> THEN Some(result.results)
                                        ELSE None]
    /\ UNCHANGED <<doc, batchVars>>

NextSearch == EnterSearch \/ SearchStep \/ ReturnResults

\* a call that was started runs on: each step of it is taken eventually
SpecSearch == InitSearch /\ [][NextSearch]_vars /\ WF_vars(NextSearch)

-----------------------------------------------------------------------------
(* Specification SpecMover: the queue of 2021_mover.py between main, the    *)
(* folder processes that put move requests on it, and the                   *)
(* file_mover_worker threads that take them off.  result holds              *)
(*   main       where main is: "produce" while process_folder calls run,    *)
(*              "signal" while it puts the termination signals, "join"      *)
(*              while it waits for the workers, "done" after the joins      *)
(*   put        the move requests put so far, numbered from 1               *)
(*   signals    the None signals put so far                                 *)
(*   queue      file_queue, requests as Some(number), a signal as None      *)
(*   at, batch  per worker: collecting, moving its batch or returned, and   *)
(*              its batch                                                   *)
(*   processed  the requests whose move a worker attempted                  *)

\* num_workers, the move requests of a run, and batch_size
NumWorkers == 2
MaxRequests == 3
BatchSize == 2

Workers == 1..NumWorkers

InitMover ==
    /\ doc = "2021_mover"
    /\ result = [main |-> "produce", put |-> 0, signals |-> 0, queue |-> <<>>,
                 at |-> [w \in Workers |-> "collect"],
                 batch |-> [w \in Workers |-> <<>>],
                 processed |-> {}]
    /\ Idle

\* process_folder: file_queue.put((src_file, dest_file, src_hash))
PutRequest ==
    /\ result.main = "produce" /\ result.put < MaxRequests
    /\ result' = [result EXCEPT !.put = @ + 1, !.queue = Append(@, Some(result.put + 1))]
    /\ UNCHANGED <<doc, batchVars>>

\* main, once the pool is closed and joined: for _ in range(num_workers):
\* file_queue.put(None)
PutSignal ==
    /\ result.main \in {"produce", "signal"} /\ result.signals < NumWorkers
    /\ result' = [result EXCEPT !.signals = @ + 1, !.queue = Append(@, None),
                                !.main = IF result.signals + 1 = NumWorkers THEN "join"
                                         ELSE "signal"]
    /\ UNCHANGED <<doc, batchVars>>

\* for t in workers: t.join()
JoinWorkers ==
    /\ result.main = "join" /\ \A w \in Workers : result.at[w] = "returned"
    /\ result' = [result EXCEPT !.main = "done"]
    /\ UNCHANGED <<doc, batchVars>>

\* one pass of the collecting loop: file_queue.get(timeout=1) gives a request,
\* a signal, or raises queue.Empty
GetFromQueue(w) ==
    /\ result.at[w] = "collect"
    /\ result' =
        IF result.queue = <<>>
          THEN IF result.batch[w] # <<>> THEN [result EXCEPT !.at[w] = "move"]
               ELSE result                        \* time.sleep(0.1); continue
        ELSE IF Head(result.queue) = None
          THEN [result EXCEPT !.queue = Tail(@),
                              !.at[w] = IF result.batch[w] = <<>> THEN "returned"
                                        ELSE "move"]
        ELSE [result EXCEPT !.queue = Tail(@),
                            !.batch[w] = Append(@, Head(result.queue)),
                            !.at[w] = IF Len(result.batch[w]) + 1 < BatchSize
                                      THEN "collect" ELSE "move"]
    /\ UNCHANGED <<doc, batchVars>>

\* after the collecting loop: the batch is moved and cleared, and the worker
\* goes back to collecting
MoveBatch(w) ==
    /\ result.at[w] = "move"
    /\ result' =
        IF result.batch[w] = <<>>
          THEN [result EXCEPT !.at[w] = IF result.queue = <<>> THEN "returned"
                                        ELSE "collect"]
        ELSE [result EXCEPT !.processed = @ \cup {Val(r) : r \in Range(result.batch[w])},
                            !.batch[w] = <<>>,
                            !.at[w] = "collect"]
    /\ UNCHANGED <<doc, batchVars>>

NextMover ==
    \/ PutRequest
    \/ PutSignal
    \/ JoinWorkers
    \/ \E w \in Workers : GetFromQueue(w)
    \/ \E w \in Workers : MoveBatch(w)

\* main and every worker thread keep running
SpecMover ==
    /\ InitMover /\ [][NextMover]_vars
    /\ WF_vars(PutSignal) /\ WF_vars(JoinWorkers)
    /\ \A w \in Workers : WF_vars(GetFromQueue(w)) /\ WF_vars(MoveBatch(w))

-----------------------------------------------------------------------------
(* Properties of the records process_xml_file returns (under SpecParse) *)

HasRecord == result # None /\ Val(result).data # None
Record == Val(Val(result).data)

\* the description node the dispatched parser reads
ParserDescription ==
    IF StartsWith(Lower(doc.root_key), "cn-patent-document")
       \/ EndsWith(Lower(doc.root_key), "patentdocumentandrelated")
    THEN find_description_in_document(doc.root)
    ELSE Get(Get(doc.root, "application-body"), "description")

\* the full description text the parser hands to create_parsed_result
FullDescriptionText ==
    IF ParserDescription.t = "dict" THEN extract_text(ParserDescription) ELSE None

\* C1 (as amended): on every record, Description is non-null if and only if
\* BriefDescriptionOfDrawings or DescriptionOfEmbodiments is null and the
\* document has a full description text.
C1_DescriptionIffSectionMissingAndText ==
    HasRecord =>
        ((Record.Description # None)
         <=> ((Record.BriefDescriptionOfDrawings = None
               \/ Record.DescriptionOfEmbodiments = None)
              /\ FullDescriptionText # None))

\* C1 as the specification states it: Description is non-null if and only if
\* BriefDescriptionOfDrawings is null or DescriptionOfEmbodiments is null.
C1_DescriptionIffSectionMissing ==
    HasRecord =>
        ((Record.Description # None)
         <=> (Record.BriefDescriptionOfDrawings = None
              \/ Record.DescriptionOfEmbodiments = None))

\* a record with exactly one section missing, which keeps the full text
C1_Witness ==
    /\ HasRecord
    /\ Record.BriefDescriptionOfDrawings # None
    /\ Record.DescriptionOfEmbodiments = None
    /\ Record.Description # None
    /\ Record.Description = FullDescriptionText

\* C2: whenever both BriefDescriptionOfDrawings and DescriptionOfEmbodiments
\* are non-empty on a returned record, its Description is null.
C2_NoDuplication ==
    (/\ HasRecord
     /\ Truthy(Record.BriefDescriptionOfDrawings)
     /\ Truthy(Record.DescriptionOfEmbodiments))
    => Record.Description = None

\* a record with both sections, of a document that has a full description text
C2_Witness ==
    /\ HasRecord
    /\ Truthy(Record.BriefDescriptionOfDrawings)
    /\ Truthy(Record.DescriptionOfEmbodiments)
    /\ FullDescriptionText # None
    /\ Record.Description = None

\* C6: process_xml_file never raises; it returns a tuple in which exactly one of
\* the record and the error is non-null, and with an error the presence map is
\* empty and the missing-field report is null.
C6_NeverRaises ==
    result # None =>
        /\ ~Val(result).raised
        /\ (Val(result).data # None) # (Val(result).error # None)
        /\ Val(result).error # None =>
              /\ DOMAIN Val(result).status = {}
              /\ Val(result).missing = None

\* a file that is not XML, and a file whose parser raises, each returned as an error
C6_Witness ==
    /\ result # None
    /\ doc.xml = "malformed" \/ (doc.xml = "ok" /\ doc.read = "ok" /\ doc.root = NoneNode)
    /\ Val(result).error = Some("Exception")
    /\ Val(result).data = None

\* C10: on every record whose Kind is U or Y in any letter case, OpenNumber is
\* null and OpenDate is null.
C10_UtilityModelNotOpened ==
    (/\ HasRecord
     /\ Record.Kind # None
     /\ Upper(Val(Record.Kind)) \in {<<"U">>, <<"Y">>})
    => (Record.OpenNumber = None /\ Record.OpenDate = None)

\* a record of kind y with a publication number and a publication date
C10_Witness ==
    /\ HasRecord
    /\ Record.Kind = Some(<<"y">>)
    /\ Record.PublicationNumber # None
    /\ Record.PublicationDate # None
    /\ Record.OpenNumber = None
    /\ Record.OpenDate = None

-----------------------------------------------------------------------------
(* Properties of the chunks and of the statistics (under Spec) *)

RECURSIVE SumSizes(_)
SumSizes(sizes) == IF sizes = <<>> THEN 0 ELSE Head(sizes) + SumSizes(Tail(sizes))

RECURSIVE SetSum(_, _)
\* the sum of f[x] over the elements x of a finite set S
SetSum(S, f) ==
    IF S = {} THEN 0
    ELSE LET x == CHOOSE y \in S : TRUE IN f[x] + SetSum(S \ {x}, f)

YearChunks(y) == {c \in disk.chunks : c.year = y}

\* the year-level reports process_year has returned so far
YearReports == {returned[i] : i \in {j \in 1..Len(returned) : returned[j].data # None}}
ReportOf(ret) == Val(ret.data).full_year_stats_report_data

\* C3: every written chunk holds at most max_items_per_file records, and the
\* sizes of its records sum to at most max_size_bytes unless it holds exactly
\* one record.
C3_ChunkBounds ==
    \A c \in disk.chunks :
        /\ Len(c.data) <= cfg.max_items_per_file
        /\ \/ SumSizes(c.sizes) <= cfg.max_file_size_gb * MiBPerGiB
           \/ Len(c.data) = 1

\* a chunk of one oversized record beside a chunk that is full by count
C3_Witness ==
    \E c1, c2 \in disk.chunks :
        /\ Len(c1.data) = 1
        /\ SumSizes(c1.sizes) > cfg.max_file_size_gb * MiBPerGiB
        /\ Len(c2.data) = cfg.max_items_per_file
        /\ Len(c2.data) >= 2

\* C4: whenever process_year has returned year-level statistics, the year-level
\* total_processed_items and every field's year-level success count equal the
\* sums over the statistics reports of the chunks written for that year.
C4_YearIsSumOfChunks ==
    \A ret \in YearReports :
        LET chunks == YearChunks(ret.year)
        IN /\ ReportOf(ret).summary.total_processed_items
              = SetSum(chunks, [c \in chunks |-> c.stats.summary.total_processed_items])
           /\ \A f \in Fields :
                 SumCounts(ReportOf(ret).field_extraction_success_rate, f)
                 = SetSum(chunks,
                     [c \in chunks |-> SumCounts(c.stats.field_extraction_success_rate, f)])

\* C5: the overall statistics report holds, for total_processed_items, every
\* field, the Kind-A counters and the description-fallback counters, the sum of
\* the year-level statistics process_year returned.
C5_OverallIsSumOfYears ==
    disk.overall_stats # None =>
        LET overall == Val(disk.overall_stats)
            yrs == YearReports
        IN /\ overall.summary.total_processed_items
              = SetSum(yrs, [r \in yrs |-> ReportOf(r).summary.total_processed_items])
           /\ \A f \in Fields :
                 SumCounts(overall.field_extraction_success_rate, f)
                 = SetSum(yrs, [r \in yrs |->
                       SumCounts(ReportOf(r).field_extraction_success_rate, f)])
           /\ overall.kind_A_special_stats.target_A_documents
              = SetSum(yrs, [r \in yrs |->
                    ReportOf(r).kind_A_special_stats.target_A_documents])
           /\ overall.kind_A_special_stats.OpenNumber_success_count
              = SetSum(yrs, [r \in yrs |->
                    ReportOf(r).kind_A_special_stats.OpenNumber_success_count])
           /\ overall.kind_A_special_stats.OpenDate_success_count
              = SetSum(yrs, [r \in yrs |->
                    ReportOf(r).kind_A_special_stats.OpenDate_success_count])
           /\ overall.description_fallback_stats
                     .target_documents_missing_drawings_or_embodiments
              = SetSum(yrs, [r \in yrs |->
                    ReportOf(r).description_fallback_stats
                        .target_documents_missing_drawings_or_embodiments])
           /\ overall.description_fallback_stats.Description_extraction_success_count
              = SetSum(yrs, [r \in yrs |->
                    ReportOf(r).description_fallback_stats
                        .Description_extraction_success_count])

\* the overall report of a run of two years, one with Kind-A documents and one
\* without any
C5_Witness ==
    /\ disk.overall_stats # None
    /\ Len(returned) = 2
    /\ \E r1, r2 \in YearReports :
          /\ ReportOf(r1).kind_A_special_stats.target_A_documents > 0
          /\ ReportOf(r1).kind_A_special_stats.OpenNumber_success_count > 0
          /\ ReportOf(r2).kind_A_special_stats.message
          /\ ReportOf(r2).summary.total_processed_items > 0
    /\ Val(disk.overall_stats).summary.total_processed_items = MaxFiles

\* C7: when batch_convert has ended after all years and at least one document
\* failed, overall_failures.log is written with one block per failed document.
C7_FailuresLogWritten ==
    (pc \in {"done", "crashed"} /\ grand.total_fail_all_years > 0)
    => (/\ disk.failures_log # None
        /\ Len(Val(disk.failures_log)) = grand.total_fail_all_years)

\* C8: after an interruption of process_year the year-level statistics are
\* serialized, and every record they count is in a chunk written for the year.
C8_InterruptConsistent ==
    \A ret \in YearReports :
        ret.how = "interrupt" =>
            /\ \E rep \in disk.year_stats : rep.year = ret.year
            /\ ReportOf(ret).summary.total_processed_items
               = SetSum(YearChunks(ret.year), [c \in YearChunks(ret.year) |-> Len(c.data)])

\* the chunk files of the current year are numbered 1, 2, ... chunk_count
NumberedFromOne ==
    /\ {c.n : c \in YearChunks(year)} = 1..yr.chunk_count
    /\ Cardinality(YearChunks(year)) = yr.chunk_count

\* the step of the loop that takes one parsed record
TakesRecord == pc = "loop" /\ yr'.success_count = yr.success_count + 1

\* the size of the record the step takes
TakenSize == yr'.current_chunk_sizes[Len(yr'.current_chunk_sizes)]

\* the record the step takes
TakenRecord == yr'.current_chunk_data[Len(yr'.current_chunk_data)]

\* the active chunk is not empty and one more record would exceed a bound
WouldExceed ==
    /\ Len(yr.current_chunk_data) > 0
    /\ \/ Len(yr.current_chunk_data) + 1 > cfg.max_items_per_file
       \/ yr.current_size_bytes + TakenSize > cfg.max_file_size_gb * MiBPerGiB

\* C9: a step of the loop seals the active chunk exactly when the chunk is not
\* empty and the record it takes would exceed the item bound or the size bound;
\* the records gathered so far are then written as the next chunk number and
\* the record taken starts the following chunk; chunk numbers of a year run
\* 1, 2, 3, ... without gaps or repeats.
C9_SealExactlyWhenExceeding ==
    [][/\ TakesRecord =>
            IF WouldExceed
            THEN /\ yr'.chunk_count = yr.chunk_count + 1
                 /\ YearChunks(year)' \ YearChunks(year)
                    = {c \in YearChunks(year)' : c.n = yr.chunk_count + 1}
                 /\ \E c \in YearChunks(year)' :
                       c.n = yr.chunk_count + 1 /\ c.data = yr.current_chunk_data
                 /\ Len(yr'.current_chunk_data) = 1
            ELSE /\ yr'.chunk_count = yr.chunk_count
                 /\ disk' = disk
                 /\ yr'.current_chunk_data = Append(yr.current_chunk_data, TakenRecord)
       /\ NumberedFromOne']_vars

\* two chunks sealed by size ahead of the item bound, the record that triggered
\* the second seal alone in the active chunk
C9_Witness ==
    /\ pc = "loop"
    /\ yr.chunk_count = 2
    /\ cfg.max_items_per_file = 2
    /\ Len(yr.current_chunk_data) = 1
    /\ \E c \in YearChunks(year) : c.n = 1 /\ Len(c.data) = 1
    /\ \E c \in YearChunks(year) : c.n = 2 /\ Len(c.data) = 1

-----------------------------------------------------------------------------
(* Properties of the number fields (under SpecParse) *)

\* the record's Kind, in upper case, is one of the given letters
KindIn(letters) ==
    HasRecord /\ Record.Kind # None /\ Upper(Val(Record.Kind)) \in letters

\* the record comes from the fallback parser, which reads no publication reference
ByFallback ==
    ~(StartsWith(Lower(doc.root_key), "cn-patent-document")
      \/ EndsWith(Lower(doc.root_key), "patentdocumentandrelated"))

-----------------------------------------------------------------------------
(* Properties of the dispatch on the root key (under SpecParse) *)

\* the file was read and parsed, so that process_xml_file reaches its dispatch
Dispatched == result # None /\ doc.read = "ok" /\ doc.xml = "ok"

MatchesVariant ==
    \/ StartsWith(Lower(doc.root_key), "cn-patent-document")
    \/ EndsWith(Lower(doc.root_key), "patentdocumentandrelated")

\* the root holds application-body/description
HasBodyDescription ==
    /\ doc.root.t = "dict" /\ HasKey(doc.root, "application-body")
    /\ Get(doc.root, "application-body").t = "dict"
    /\ HasKey(Get(doc.root, "application-body"), "description")

\* the record carries the look-ups only the primary and the legacy parser make
ByVariantParser ==
    /\ Record.ApplicantName = doc.bib.applicant /\ Record.InventorName = doc.bib.inventor
    /\ Record.AgentName = doc.bib.agent /\ Record.MainCPC = doc.bib.cpc

\* the record carries None where the fallback parser makes no look-up
ByFallbackParser ==
    /\ Record.ApplicantName = None /\ Record.InventorName = None
    /\ Record.AgentName = None /\ Record.MainCPC = None

UnknownStructureResult ==
    Val(result) = [raised |-> FALSE, path |-> doc.path, data |-> None,
                   error |-> Some("UnknownStructure"), status |-> NoStatus,
                   missing |-> None]

\* C13: a root key that starts with cn-patent-document or ends with
\* patentdocumentandrelated, in any letter case, takes its variant parser and is
\* never an unknown structure; any other root key takes the fallback parser,
\* which yields a record only if application-body/description exists, and
\* otherwise the result is (path, null, unknown-structure error, {}, null).
C13_DispatchByRootKey ==
    Dispatched =>
        IF MatchesVariant
        THEN /\ Val(result).error # Some("UnknownStructure")
             /\ HasRecord => ByVariantParser
        ELSE IF HasBodyDescription
        THEN HasRecord => ByFallbackParser
        ELSE UnknownStructureResult

-----------------------------------------------------------------------------
(* Properties of safe_get and clean_application_number (under SpecHelpers) *)

Looked == doc.op = "safe_get" /\ doc.applied = 1

RECURSIVE StoredUnder(_, _)
\* the values stored under key by the maps at or below a node, parents first
StoredUnder(n, key) ==
    IF n.t \notin {"dict", "list"} THEN <<>>
    ELSE (IF HasKey(n, key) THEN <<Get(n, key)>> ELSE <<>>)
         \o Concat([i \in 1..Len(n.items) |-> StoredUnder(Child(n, i), key)])

IsTextWrapper(v) == HasKey(v, "#text") \/ HasKey(v, "text")

\* the text of a text wrapper, any other value as it is
Unwrapped(v) ==
    IF HasKey(v, "#text") THEN Get(v, "#text")
    ELSE IF HasKey(v, "text") THEN Get(v, "text")
    ELSE v

\* C14: when exactly one value is stored under key at or below the node,
\* safe_get returns it (the text of a text wrapper counts as the value); when
\* several are stored it returns the list of them; and it returns null only if
\* no map of the structure contains key.
C14_ReturnsStoredValues ==
    Looked =>
        LET stored == StoredUnder(doc.obj, doc.key)
        IN /\ Len(stored) = 1 => Val(result) \in {stored[1], Unwrapped(stored[1])}
           /\ Len(stored) > 1 =>
                /\ Val(result).t = "list"
                /\ Len(Val(result).items) = Len(stored)
                /\ \A i \in 1..Len(stored) :
                      \E j \in 1..Len(stored) :
                          Val(result).items[j] \in {stored[i], Unwrapped(stored[i])}
           /\ Val(result) = NoneNode => stored = <<>>

\* C15: a value stored under key that is a map with a '#text' or 'text' entry
\* is never returned as the wrapper, neither alone nor in the list of matches,
\* at whatever depth the match is found, the node passed in included.
C15_TextNotWrapper ==
    Looked =>
        \A i \in 1..Len(StoredUnder(doc.obj, doc.key)) :
            IsTextWrapper(StoredUnder(doc.obj, doc.key)[i]) =>
                /\ Val(result) # StoredUnder(doc.obj, doc.key)[i]
                /\ Val(result).t = "list" =>
                      StoredUnder(doc.obj, doc.key)[i] \notin Range(Val(result).items)

\* C16: clean_application_number applied to a value it returned gives that
\* value back, and what it returns for a non-empty input holds no decimal
\* point; for null, empty strings, digit strings, strings with one or several
\* decimal points, and numbers.
C16_CleanIdempotent ==
    [][(doc.op = "clean_application_number" /\ doc'.applied = doc.applied + 1) =>
          /\ doc.applied = 1 => result' = result
          /\ TruthyValue(doc.arg) =>
                /\ ~IsNum(Val(Val(result')))
                /\ "." \notin Range(Val(Val(result')))]_vars

\* a string with several decimal points and a number with a fraction, each
\* cleaned twice
C16_Witness ==
    /\ doc.op = "clean_application_number" /\ doc.applied = 2
    /\ \/ doc.arg = Some(<<"1", ".", "2", ".", "3">>) /\ result = Some(Some(<<"1">>))
       \/ doc.arg = Some(Num(<<"1", "2", ".", "5">>)) /\ result = Some(Some(<<"1", "2">>))

-----------------------------------------------------------------------------
(* Properties of the missing-field report (under SpecParse) *)

\* a field value that is null or empty
Absent(value) == value = None \/ Val(value) = <<>>

MissingFields == {f \in Fields : Absent(Record[f])}

Report == Val(Val(result).missing)

Issues ==
    IF Report.contextual_issues = None THEN {} ELSE Range(Val(Report.contextual_issues))

KindATags ==
    {"Kind_A_missing_OpenNumber", "Kind_A_missing_OpenDate",
     "Kind_A_missing_OpenNumber_and_OpenDate"}

\* the Kind-A tag that names exactly the missing Open fields
KindATagFor(missing) ==
    IF {"OpenNumber", "OpenDate"} \subseteq missing
    THEN "Kind_A_missing_OpenNumber_and_OpenDate"
    ELSE IF "OpenNumber" \in missing THEN "Kind_A_missing_OpenNumber"
    ELSE "Kind_A_missing_OpenDate"

\* C17: the missing-field report of a record is non-null if and only if a
\* non-meta field is null or empty (a result without record has none); its
\* missing_fields are exactly those fields, each once; it carries a Kind-A tag
\* if and only if Kind is 'A' and OpenNumber or OpenDate is missing, the tag
\* naming the missing ones; and it carries the Description tag if and only if
\* Description is missing while a description sub-section is absent.
C17_MissingReport ==
    /\ (result # None /\ ~HasRecord) => Val(result).missing = None
    /\ HasRecord =>
        /\ (Val(result).missing # None) <=> (MissingFields # {})
        /\ \A f \in Fields : Val(result).status[f] <=> ~Absent(Record[f])
        /\ Val(result).missing # None =>
            /\ Report.full_file_path = doc.path
            /\ Range(Report.missing_fields) = MissingFields
            /\ Len(Report.missing_fields) = Cardinality(MissingFields)
            /\ Report.contextual_issues # None => Issues # {}
            /\ (Issues \cap KindATags # {}) <=>
                  /\ Record.Kind = Some(<<"A">>)
                  /\ {"OpenNumber", "OpenDate"} \cap MissingFields # {}
            /\ Issues \cap KindATags \subseteq {KindATagFor(MissingFields)}
            /\ ("Description_missing_when_drawings_or_embodiments_absent" \in Issues) <=>
                  /\ "Description" \in MissingFields
                  /\ {"BriefDescriptionOfDrawings", "DescriptionOfEmbodiments"}
                        \cap MissingFields # {}

\* a Kind-A record with both Open fields and no application number: the report
\* lists ApplicationNumber and carries no Kind-A tag
C17_Witness ==
    /\ HasRecord
    /\ Record.Kind = Some(<<"A">>)
    /\ ~Absent(Record.OpenNumber) /\ ~Absent(Record.OpenDate)
    /\ Record.ApplicationNumber = None
    /\ Val(result).missing # None
    /\ "ApplicationNumber" \in Range(Report.missing_fields)
    /\ Issues \cap KindATags = {}

-----------------------------------------------------------------------------
(* Properties of the statistics reports (under Spec) *)

\* every statistics report written or returned so far
AllReports ==
    {c.stats : c \in disk.chunks}
    \cup {r.report : r \in disk.year_stats}
    \cup {ReportOf(ret) : ret \in YearReports}
    \cup (IF disk.overall_stats # None THEN {Val(disk.overall_stats)} ELSE {})

\* rate is success_count / total * 100 for 0 <= success_count <= total, total > 0
IsRate(rate, success_count, total) ==
    /\ total > 0 /\ success_count >= 0 /\ success_count <= total
    /\ rate.den = total /\ rate.num = success_count * 100

\* the number of records of a year's chunks that satisfy a test given as a
\* function of the record
CountInYear(chunks, test) ==
    SetSum(chunks, [c \in chunks |->
                      Cardinality({i \in 1..Len(c.data) : test[c.data[i]]})])

IsKindA == [r \in UNION {Range(c.data) : c \in disk.chunks} |-> r.Kind = Some(<<"A">>)]

IsPartial ==
    [r \in UNION {Range(c.data) : c \in disk.chunks} |->
        Absent(r.BriefDescriptionOfDrawings) \/ Absent(r.DescriptionOfEmbodiments)]

\* C18: no statistics report holds a rate over a zero denominator: the field
\* list is empty when no item was processed, the Kind-A block and the
\* description-fallback block are message blocks when their document count is
\* zero, and every rate that is present is success_count / total * 100 with
\* success_count <= total.  For a year that returned normally the document
\* counts of the two blocks are those of the records in the year's chunks.
C18_NoZeroDenominator ==
    /\ \A rep \in AllReports :
        /\ rep.summary.total_processed_items = 0 => rep.field_extraction_success_rate = <<>>
        /\ \A i \in 1..Len(rep.field_extraction_success_rate) :
              /\ rep.field_extraction_success_rate[i].total_items
                 = rep.summary.total_processed_items
              /\ IsRate(rep.field_extraction_success_rate[i].success_rate_percent,
                        rep.field_extraction_success_rate[i].success_count,
                        rep.field_extraction_success_rate[i].total_items)
        /\ ~rep.kind_A_special_stats.message =>
              /\ IsRate(rep.kind_A_special_stats.OpenNumber_success_rate_percent,
                        rep.kind_A_special_stats.OpenNumber_success_count,
                        rep.kind_A_special_stats.target_A_documents)
              /\ IsRate(rep.kind_A_special_stats.OpenDate_success_rate_percent,
                        rep.kind_A_special_stats.OpenDate_success_count,
                        rep.kind_A_special_stats.target_A_documents)
        /\ ~rep.description_fallback_stats.message =>
              IsRate(rep.description_fallback_stats
                        .Description_extraction_success_rate_percent,
                     rep.description_fallback_stats.Description_extraction_success_count,
                     rep.description_fallback_stats
                        .target_documents_missing_drawings_or_embodiments)
    /\ \A ret \in YearReports :
        ret.how = "normal" =>
            /\ ReportOf(ret).kind_A_special_stats.message
               <=> CountInYear(YearChunks(ret.year), IsKindA) = 0
            /\ ~ReportOf(ret).kind_A_special_stats.message =>
                  ReportOf(ret).kind_A_special_stats.target_A_documents
                  = CountInYear(YearChunks(ret.year), IsKindA)
            /\ ReportOf(ret).description_fallback_stats.message
               <=> CountInYear(YearChunks(ret.year), IsPartial) = 0
            /\ ~ReportOf(ret).description_fallback_stats.message =>
                  ReportOf(ret).description_fallback_stats
                     .target_documents_missing_drawings_or_embodiments
                  = CountInYear(YearChunks(ret.year), IsPartial)

\* a year without any parsed document, reported with an empty rate list and two
\* message blocks, beside a year whose Kind-A block holds a rate below 100
C18_Witness ==
    /\ \E ret \in YearReports :
          /\ ret.how = "normal"
          /\ ReportOf(ret).summary.total_processed_items = 0
          /\ ReportOf(ret).field_extraction_success_rate = <<>>
          /\ ReportOf(ret).kind_A_special_stats.message
          /\ ReportOf(ret).description_fallback_stats.message
    /\ \E ret \in YearReports :
          /\ ~ReportOf(ret).kind_A_special_stats.message
          /\ ReportOf(ret).kind_A_special_stats.OpenNumber_success_count
             < ReportOf(ret).kind_A_special_stats.target_A_documents

-----------------------------------------------------------------------------
(* Properties of the marker fallback (under SpecParse) *)

\* the description of a legacy-schema document holds nothing but a list of
\* one-line paragraphs
LegacyParagraphs ==
    /\ HasRecord
    /\ EndsWith(Lower(doc.root_key), "patentdocumentandrelated")
    /\ ~StartsWith(Lower(doc.root_key), "cn-patent-document")
    /\ ParserDescription.t = "dict"
    /\ Len(ParserDescription.items) = 1
    /\ HasKey(ParserDescription, "p")
    /\ Get(ParserDescription, "p").t = "list"

\* the lines of those paragraphs
Lines == [i \in 1..Len(Get(ParserDescription, "p").items) |->
            Get(ParserDescription, "p").items[i].s]

\* the positions of the only drawings marker and of the only embodiments marker
DrawingsAt == CHOOSE i \in 1..Len(Lines) : Lines[i] = <<"D">>
EmbodimentsAt == CHOOSE i \in 1..Len(Lines) : Lines[i] = <<"E">>

\* a drawings-marker paragraph followed by an embodiments-marker paragraph
MarkersInOrder ==
    /\ LegacyParagraphs
    /\ Cardinality({i \in 1..Len(Lines) : Lines[i] = <<"D">>}) = 1
    /\ Cardinality({i \in 1..Len(Lines) : Lines[i] = <<"E">>}) = 1
    /\ DrawingsAt < EmbodimentsAt

\* "\n\n".join of the lines at positions lo..hi, None when there is none
Joined(lo, hi) == IF lo > hi THEN None ELSE Some(JoinBlank(SubSeq(Lines, lo, hi)))

\* C19 (as amended): for a legacy-schema document whose description has no
\* section tags and whose paragraphs hold a drawings marker followed by an
\* embodiments marker, BriefDescriptionOfDrawings is the joined text strictly
\* between the markers and null when the embodiments marker follows
\* immediately, DescriptionOfEmbodiments is the joined text after the
\* embodiments marker, and Description is null when both sections are
\* non-null and the full description text (the paragraphs joined by newlines)
\* otherwise: with adjacent markers Description is the full description text.
C19_MarkerSections ==
    MarkersInOrder =>
        /\ Record.BriefDescriptionOfDrawings = Joined(DrawingsAt + 1, EmbodimentsAt - 1)
        /\ Record.DescriptionOfEmbodiments = Joined(EmbodimentsAt + 1, Len(Lines))
        /\ Record.Description
           = IF EmbodimentsAt > DrawingsAt + 1 /\ EmbodimentsAt < Len(Lines)
             THEN None ELSE Some(JoinNL(Lines))

\* C19 as the specification states it: with the embodiments marker immediately
\* after the drawings marker, BriefDescriptionOfDrawings is the (empty) text
\* between the markers, DescriptionOfEmbodiments is the joined text after the
\* embodiments marker, and Description is null.
C19_AdjacentMarkersNoDescription ==
    (MarkersInOrder /\ EmbodimentsAt = DrawingsAt + 1) =>
        /\ Absent(Record.BriefDescriptionOfDrawings)
        /\ Record.DescriptionOfEmbodiments = Joined(EmbodimentsAt + 1, Len(Lines))
        /\ Record.Description = None

\* adjacent markers with one paragraph after them
C19_Witness ==
    /\ MarkersInOrder
    /\ Lines = << <<"D">>, <<"E">>, <<"w3">> >>
    /\ Record.BriefDescriptionOfDrawings = None
    /\ Record.DescriptionOfEmbodiments = Some(<<"w3">>)
    /\ Record.Description = Some(<<"D", "E", "w3">>)

-----------------------------------------------------------------------------
(* Properties of the chunk reports (under Spec) *)

\* C20: the statistics report of every written chunk counts exactly the
\* records of the chunk's data file, the chunk's missing-items report holds
\* only reports of records of that chunk, and between two iterations of the
\* loop current_chunk_items_count = len(current_chunk_data).
C20_ChunkReportMatchesData ==
    /\ \A c \in disk.chunks :
        /\ c.stats.summary.total_processed_items = Len(c.data)
        /\ c.missing # None =>
              \A k \in 1..Len(Val(c.missing)) :
                  \E i \in 1..Len(c.data) :
                      c.data[i].meta.originalFileName = Val(c.missing)[k].full_file_path
    /\ pc = "loop" => yr.chunk_stats.items = Len(yr.current_chunk_data)

-----------------------------------------------------------------------------
(* Properties of the records of a year (under Spec) *)

\* the years process_year completed without interruption or error
CompletedYears == {ret \in YearReports : ret.how = "normal"}

RECURSIVE ChunksInOrder(_, _)
\* the records of the chunk files 1..n of a year, one chunk after the other
ChunksInOrder(y, n) ==
    IF n = 0 THEN <<>>
    ELSE ChunksInOrder(y, n - 1) \o (CHOOSE c \in YearChunks(y) : c.n = n).data

\* the files whose records were consumed in a year, in the order of consumption:
\* every record adds its missing-field report to the year's list when it is
\* consumed (SummaryOfInvention is missing from every record)
ConsumedFiles(ret) ==
    [i \in 1..Len(Val(ret.data).yearly_missing_items) |->
        Val(ret.data).yearly_missing_items[i].full_file_path]

\* C21: when process_year completes a year without interruption, the chunk
\* files of the year are numbered 1..k, and their records, taken in chunk
\* order, are the successfully parsed records in the order their results were
\* consumed, each exactly once.
C21_ChunksHoldEveryRecordOnce ==
    \A ret \in CompletedYears :
        LET k == Cardinality(YearChunks(ret.year))
        IN /\ {c.n : c \in YearChunks(ret.year)} = 1..k
           /\ Len(ChunksInOrder(ret.year, k)) = ret.success
           /\ [i \in 1..Len(ChunksInOrder(ret.year, k)) |->
                  ChunksInOrder(ret.year, k)[i].meta.originalFileName]
              = ConsumedFiles(ret)
           /\ \A i, j \in 1..Len(ConsumedFiles(ret)) :
                 ConsumedFiles(ret)[i] = ConsumedFiles(ret)[j] => i = j

\* a completed year of three records in two chunks, the first chunk full
C21_Witness ==
    \E ret \in CompletedYears :
        /\ ret.success = 3
        /\ Cardinality(YearChunks(ret.year)) = 2
        /\ \E c \in YearChunks(ret.year) : c.n = 1 /\ Len(c.data) = 2

\* a step of the loop of process_year that consumes one result
ConsumesResult == pc = "loop" /\ pending' # pending /\ pc' = "loop"

\* the items the chunk-level statistics of the current year have counted: in the
\* reports written with the chunks and in the accumulators of the active chunk
ChunkLevelItems ==
    SetSum(YearChunks(year), [c \in YearChunks(year) |->
                                c.stats.summary.total_processed_items])
    + yr.chunk_stats.items

\* the records of the current year: in the chunks written and in the active one
RecordsHeld ==
    SetSum(YearChunks(year), [c \in YearChunks(year) |-> Len(c.data)])
    + Len(yr.current_chunk_data)

\* C22: after each result consumed by process_year, success_count + fail_count
\* is the number of results consumed and failed_files has fail_count entries;
\* a result with an error changes no chunk, no chunk-level and no year-level
\* statistics counter and no missing-items list; a successful result adds one
\* record to the active chunk, one item to the year-level statistics and one
\* item to the chunk-level statistics, its fields counted where they are
\* present; and at normal completion success_count + fail_count is the number
\* of submitted files.
C22_EveryResultCountedOnce ==
    [][/\ ConsumesResult =>
            /\ yr'.success_count + yr'.fail_count = nfiles - Cardinality(pending')
            /\ Cardinality(pending') = Cardinality(pending) - 1
            /\ Len(yr'.failed_files) = yr'.fail_count
            /\ IF yr'.fail_count # yr.fail_count
               THEN /\ yr'.fail_count = yr.fail_count + 1
                    /\ yr'.success_count = yr.success_count
                    /\ disk' = disk
                    /\ yr'.current_chunk_data = yr.current_chunk_data
                    /\ yr'.current_size_bytes = yr.current_size_bytes
                    /\ yr'.chunk_count = yr.chunk_count
                    /\ yr'.chunk_stats = yr.chunk_stats
                    /\ yr'.year_stats = yr.year_stats
                    /\ yr'.yearly_total_missing_item_reports
                       = yr.yearly_total_missing_item_reports
                    /\ yr'.current_chunk_missing_details_list
                       = yr.current_chunk_missing_details_list
               ELSE /\ yr'.success_count = yr.success_count + 1
                    /\ yr'.failed_files = yr.failed_files
                    /\ RecordsHeld' = RecordsHeld + 1
                    /\ yr'.current_chunk_data # <<>>
                    /\ yr'.year_stats.items = yr.year_stats.items + 1
                    /\ ChunkLevelItems' = ChunkLevelItems + 1
                    /\ \A f \in Fields :
                          yr'.year_stats.fields[f]
                          = yr.year_stats.fields[f] + B2N(~Absent(TakenRecord[f]))
       /\ (pc = "year_report" /\ pc' = "fold") =>
             /\ returned'[Len(returned')].success + returned'[Len(returned')].fail = nfiles
             /\ Len(returned'[Len(returned')].failed_files)
                = returned'[Len(returned')].fail]_vars

\* a year completed after a failed result was consumed between two parsed ones
C22_Witness ==
    /\ pc = "fold"
    /\ returned[Len(returned)].how = "normal"
    /\ returned[Len(returned)].success = 2
    /\ returned[Len(returned)].fail = 1
    /\ returned[Len(returned)].failed_files[1][1][2] = 2

-----------------------------------------------------------------------------
(* Properties of extract_description_sections (under SpecHelpers) *)

Split == doc.op = "extract_description_sections" /\ doc.applied = 1

\* the lines of the paragraphs handed in, and where the markers are
Paragraphs == [i \in 1..Len(doc.obj.items) |-> doc.obj.items[i].s]
DrawingMarkers == {i \in 1..Len(Paragraphs) : Paragraphs[i] = <<"D">>}
EmbodimentMarkers == {i \in 1..Len(Paragraphs) : Paragraphs[i] = <<"E">>}

\* the next embodiments marker after position i
NextEmbodiment(i) ==
    CHOOSE j \in EmbodimentMarkers :
        j > i /\ \A k \in EmbodimentMarkers : k > i => j <= k

\* "\n\n".join of the paragraphs at positions lo..hi, None when there is none
JoinedParagraphs(lo, hi) ==
    IF lo > hi THEN None ELSE Some(JoinBlank(SubSeq(Paragraphs, lo, hi)))

\* the drawings markers that an embodiments marker follows
FollowedDrawingMarkers ==
    {i \in DrawingMarkers : \E j \in EmbodimentMarkers : j > i}

\* C23: for every paragraph sequence the drawings section is the joined text
\* strictly between a drawings-marker paragraph and the next embodiments-marker
\* paragraph after it (null without such a pair), and the embodiments section
\* is the joined text from an embodiments-marker paragraph, or from the
\* paragraph after it, to the end of the list (null without such a marker),
\* also when several markers of a kind occur.
C23_SectionsBetweenMarkers ==
    Split =>
        /\ Val(result)[1] \in
              IF FollowedDrawingMarkers = {} THEN {None}
              ELSE {JoinedParagraphs(i + 1, NextEmbodiment(i) - 1) :
                        i \in FollowedDrawingMarkers}
        /\ Val(result)[2] \in
              IF EmbodimentMarkers = {} THEN {None}
              ELSE {JoinedParagraphs(e + 1, Len(Paragraphs)) : e \in EmbodimentMarkers}
                   \cup {JoinedParagraphs(e, Len(Paragraphs)) : e \in EmbodimentMarkers}

\* C24 (as amended): for every paragraph sequence in which a drawings marker is
\* found and no embodiments marker follows it, the drawings section is null;
\* the embodiments section is null as well when the sequence holds no
\* embodiments marker at all, and is the joined text after the last
\* embodiments marker when such markers precede the drawings marker.
C24_NoSplitWithoutEmbodiments ==
    (Split /\ DrawingMarkers # {} /\ FollowedDrawingMarkers = {}) =>
        /\ Val(result)[1] = None
        /\ Val(result)[2]
           = IF EmbodimentMarkers = {} THEN None
             ELSE JoinedParagraphs(
                    (CHOOSE e \in EmbodimentMarkers : \A k \in EmbodimentMarkers : k <= e) + 1,
                    Len(Paragraphs))

\* C24 as the specification states it: when a drawings marker is found and no
\* embodiments marker follows it, both the drawings section and the
\* embodiments section are null.
C24_NoSplitAtAll ==
    (Split /\ DrawingMarkers # {} /\ FollowedDrawingMarkers = {}) =>
        /\ Val(result)[1] = None
        /\ Val(result)[2] = None

\* a lone drawings marker between prose: no section, the full text returned
C24_Witness ==
    /\ Split
    /\ Paragraphs = << <<"w1">>, <<"D">>, <<"w2">> >>
    /\ Val(result) = <<None, None, Some(<<"w1", "", "D", "", "w2">>)>>

-----------------------------------------------------------------------------
(* Properties of the search of safe_get (under SpecSearch) *)

\* the references stored in the objects of the heap
Edges(heap) == SetSum(NodeIds, [n \in NodeIds |-> Len(heap[n].refs)])

\* the elements of the lists stored under the key, once per dict storing them
MatchedEdges(heap, key) ==
    SetSum(NodeIds, [n \in NodeIds |-> Len(MatchedElements(heap, heap[n], key))])

\* the objects put on the queue: obj, every reference once when its owner is
\* expanded, and the elements of a list once more per dict holding it under the key
WorkBound(heap, key) == 1 + Edges(heap) + MatchedEdges(heap, key)

ExpandedOnce ==
    /\ \A n \in NodeIds : result.expanded[n] <= 1
    /\ result.pops <= WorkBound(doc.heap, doc.key)

SearchReturned == result.pos = "done"

\* C25: safe_get returns on every heap, aliased and cyclic ones included; no dict
\* or list is expanded twice, and the loop runs at most once per object queued,
\* a number the nodes and references of the heap bound.
C25_SearchTerminates == [](ExpandedOnce) /\ <>SearchReturned

\* a list holding itself and, twice, a dict that leads back to it: the search
\* returned after skipping the objects it met again
C25_Witness ==
    /\ SearchReturned
    /\ doc.heap["o1"] = ListObject(<<"o1", "o2">>)
    /\ doc.heap["o2"] = DictObject(<<"name", "#text">>, <<"o3", "o1">>)
    /\ doc.heap["o3"] = ListObject(<<"o2", "o2">>)
    /\ result.visited = NodeIds
    /\ result.pops > 3

-----------------------------------------------------------------------------
(* Properties of the open number of granted documents (under SpecParse) *)

\* an 8-character date YYYYMMDD of the calendar
ValidDate(d) ==
    /\ Len(d) = 8 /\ \A i \in 1..8 : d[i] \in Digits
    /\ NumVal(SubSeq(d, 1, 4)) >= 1
    /\ NumVal(SubSeq(d, 5, 6)) \in 1..12
    /\ NumVal(SubSeq(d, 7, 8)) \in 1..DaysIn(NumVal(SubSeq(d, 1, 4)), NumVal(SubSeq(d, 5, 6)))

\* the months from the month of date a to the month of date b
MonthGap(a, b) ==
    (NumVal(SubSeq(b, 1, 4)) - NumVal(SubSeq(a, 1, 4))) * 12
    + (NumVal(SubSeq(b, 5, 6)) - NumVal(SubSeq(a, 5, 6)))

\* the file's application date and publication date are both dates, more than
\* 18 months apart, and the parser reads the publication reference
OpenedBeforeGrant ==
    /\ ~ByFallback
    /\ doc.bib.app_date # None /\ ValidDate(Val(doc.bib.app_date))
    /\ doc.bib.pub_date # None /\ ValidDate(Val(doc.bib.pub_date))
    /\ MonthGap(Val(doc.bib.app_date), Val(doc.bib.pub_date)) > 18

-----------------------------------------------------------------------------
(* Properties of calculate_date_diff (under SpecHelpers) *)

DateDiffed == doc.op = "calculate_date_diff" /\ doc.applied = 1

IsValidDate(v) == v # None /\ ValidDate(Val(v))

\* C27: calculate_date_diff returns (y2 - y1) * 12 + (m2 - m1) for two valid
\* YYYYMMDD dates, and null when a date is absent or is no valid YYYYMMDD date.
C27_MonthDifferenceOrNull ==
    DateDiffed =>
        Val(result) = (IF IsValidDate(doc.arg[1]) /\ IsValidDate(doc.arg[2])
                       THEN Some(MonthGap(Val(doc.arg[1]), Val(doc.arg[2])))
                       ELSE None)

-----------------------------------------------------------------------------
(* Properties of read_xml_with_encoding (under SpecHelpers) *)

FileRead == doc.op = "read_xml_with_encoding" /\ doc.applied = 1

\* the first of utf-8, euc-kr, cp949, latin1 that decodes the bytes
FirstDecoder(bytes) ==
    IF "utf-8" \in Decoders(bytes) THEN "utf-8"
    ELSE IF "euc-kr" \in Decoders(bytes) THEN "euc-kr"
    ELSE IF "cp949" \in Decoders(bytes) THEN "cp949"
    ELSE "latin1"

\* C28: read_xml_with_encoding returns the text as decoded by the first of
\* utf-8, euc-kr, cp949, latin1 that decodes the file; it returns null only
\* when the file does not exist or no encoding decodes it, and process_xml_file
\* then reports the file as failed with the encoding-unrecognized error.
C28_FirstEncodingThatDecodes ==
    FileRead =>
        LET f == doc.arg
            r == Val(result)
        IN /\ (f.read \in ByteClasses /\ Decoders(f.read) # {}) =>
                r.read = [exc |-> FALSE,
                          txt |-> Some(Decoded(FirstDecoder(f.read), f.read))]
           /\ (~r.read.exc /\ r.read.txt = None) =>
                /\ f.read = "missing" \/ (f.read \in ByteClasses /\ Decoders(f.read) = {})
                /\ r.processed.error = Some("EncodingUnrecognized")
                /\ r.processed.data = None
                /\ ~r.processed.raised

\* a file in CP949 that utf-8 and euc-kr fail to decode
C28_Witness ==
    /\ FileRead
    /\ doc.arg.read = "cp949"
    /\ Val(result).read.txt = Some(<<"xml", "chars-of", "cp949">>)

\* a missing file, reported as a failed file
C28_WitnessMissing ==
    /\ FileRead
    /\ doc.arg.read = "missing"
    /\ Val(result).read.txt = None
    /\ Val(result).processed.error = Some("EncodingUnrecognized")

-----------------------------------------------------------------------------
(* Properties of the tag-based sections (under SpecParse) *)

\* the sections the tags of the description give
TagDrawings == TagSection(ParserDescription, DrawingTags)
TagEmbodiments == TagSection(ParserDescription, EmbodimentTags)

\* the sections the marker scan of the description's paragraphs gives
MarkerSections ==
    IF extract_description_paragraphs(ParserDescription) # <<>>
    THEN extract_description_sections(extract_description_paragraphs(ParserDescription))
    ELSE <<None, None, None>>

\* C29: on every record, a section the tags of the description gave is the
\* record's section, whatever the marker scan finds; a section the tags did
\* not give is the one of the marker scan, or stays missing when the scan
\* finds none.
C29_TagsBeforeMarkers ==
    HasRecord =>
        /\ Record.BriefDescriptionOfDrawings
           = (IF Truthy(TagDrawings) THEN TagDrawings
              ELSE IF Truthy(MarkerSections[1]) THEN MarkerSections[1] ELSE TagDrawings)
        /\ Record.DescriptionOfEmbodiments
           = (IF Truthy(TagEmbodiments) THEN TagEmbodiments
              ELSE IF Truthy(MarkerSections[2]) THEN MarkerSections[2] ELSE TagEmbodiments)

\* a drawings tag beside paragraphs with both markers: the drawings section is
\* the tag's text, not the text between the markers, and the embodiments
\* section is filled from the markers
C29_Witness ==
    /\ HasRecord
    /\ TagDrawings = Some(<<"w1">>)
    /\ TagEmbodiments = None
    /\ MarkerSections[1] = Some(<<"w2">>)
    /\ MarkerSections[2] = Some(<<"w3">>)
    /\ Record.BriefDescriptionOfDrawings = Some(<<"w1">>)
    /\ Record.DescriptionOfEmbodiments = Some(<<"w3">>)

-----------------------------------------------------------------------------
(* Properties of the workers of 2021_mover.py (under SpecMover) *)

SignalsPut == result.main = "join"

AllReturned == \A w \in Workers : result.at[w] = "returned"

AllProcessed == result.processed = 1..result.put

\* C30: once main has put one None per worker on the queue, every worker
\* returns, and every move request put before the signals is processed.
C30_WorkersReturn == (SignalsPut ~> AllReturned) /\ (SignalsPut ~> AllProcessed)

\* the requests are processed even when a worker does not return
C30_RequestsProcessed == SignalsPut ~> AllProcessed

====
